---- MODULE Spec2Model ----
(***************************************************************************)
(* Template transform of fervid (crates/fervid_transform, ast_transform.rs) *)
(* as a state machine: whitespace elision, slot reordering and folding of  *)
(* v-if / v-else-if / v-else chains in optimize_children, the root         *)
(* handling of transform_and_record_template, the patch-flag loop of       *)
(* TemplateVisitor::visit_element_node, the visitor's walk over the tree   *)
(* with its scope table, and the creation call of a built-in.              *)
(***************************************************************************)
EXTENDS Integers, Sequences, FiniteSets, TLC

VARIABLES
    level,          \* "children": a call of optimize_children on an element's children;
                    \* "roots": transform_and_record_template on template.roots;
                    \* "attrs": the attribute loop of visit_element_node;
                    \* "visit": the walk of TemplateVisitor over template.roots;
                    \* "codegen": a call of generate_transition_group
    pc,             \* position in the code
    pass,           \* how many times optimize_children was entered on this list
    input,          \* the sibling list handed to the current call (history)
    element_kind,   \* the element_kind argument / the kind of the visited element
    children,       \* the Vec<Node> being optimized (template.roots at root level)
    fold_input,     \* the list the drain loop consumes (history)
    idx,            \* number of children already drained by the fold loop
    seq,            \* Option<ConditionalNodeSequence>: <<>> or <<s>>
    new_children,   \* the output vector of the fold loop
    attributes,     \* starting_tag.attributes of the visited element
    attr_idx,       \* number of attributes already processed
    patch_hints,    \* element_node.patch_hints: [flags, props]
    hints_log,      \* patch_hints after each processed attribute (history)
    stack,          \* the calls of visit_element_node / visit_conditional_node in
                    \* progress, outermost first, below them the loop over the roots
    template_scopes,\* scope_helper.template_scopes
    current_scope,  \* TemplateVisitor::current_scope
    resolved,       \* the calls of transform_expr made so far (history)
    generated       \* Option<Expr>: what the code generator returned

vars == <<level, pc, pass, input, element_kind, children, fold_input, idx, seq,
          new_children, attributes, attr_idx, patch_hints, hints_log,
          stack, template_scopes, current_scope, resolved, generated>>

optVars == <<pass, input, element_kind, children, fold_input, idx, seq, new_children>>
attrVars == <<attributes, attr_idx, patch_hints, hints_log>>
visitVars == <<stack, template_scopes, current_scope, resolved>>

(***************************************************************************)
(* Bounds of the model                                                     *)
(***************************************************************************)
MaxLen == 3         \* longest short sibling list
MaxTail == 2        \* nodes after the padding of a long sibling list
MaxAttrs == 3       \* longest attribute list
MaxKids == 2        \* most children of the root element of a visited tree

(***************************************************************************)
(* Program constants                                                       *)
(***************************************************************************)
MaskBits == 128     \* width of discard_mask: u128

(***************************************************************************)
(* Data model: Option<T> is a sequence of length 0 (None) or 1 (Some).     *)
(***************************************************************************)
None == <<>>
Some(x) == <<x>>
IsSome(o) == Len(o) = 1
Unwrap(o) == o[1]

ElementKinds == {"Element", "Component", "Builtin"}

\* Characters of a text node; trim() strips the leading and trailing whitespace ones
WhitespaceChars == {" ", "\n", "\t"}

RECURSIVE TrimStart(_)
TrimStart(v) ==
    IF v # <<>> /\ v[1] \in WhitespaceChars THEN TrimStart(Tail(v)) ELSE v

RECURSIVE TrimEnd(_)
TrimEnd(v) ==
    IF v # <<>> /\ v[Len(v)] \in WhitespaceChars
    THEN TrimEnd(SubSeq(v, 1, Len(v) - 1))
    ELSE v

Trim(v) == TrimEnd(TrimStart(v))

\* VueDirectives: one Option slot per directive kind
NoDirectives ==
    [v_if |-> None, v_else_if |-> None, v_else |-> None, v_slot |-> None,
     v_for |-> None]

\* VSlotDirective, reduced to its slot name
NamedSlot == [slot_name |-> Some("named")]

TextNode(i, v) == [type |-> "Text", id |-> i, text |-> v]
CommentNode(i) == [type |-> "Comment", id |-> i, text |-> <<"c">>]
InterpolationNode(i) == [type |-> "Interpolation", id |-> i]
ElementNode(i, tag, dirs) ==
    [type |-> "Element", id |-> i, tag_name |-> tag, attributes |-> <<>>,
     directives |-> dirs, children |-> <<>>, template_scope |-> 0]
ConditionalSeqNode(s) == [type |-> "ConditionalSeq", seq |-> s]

\* The expression of the v-if / v-else-if of the i-th sibling
Cond(i) == <<"expr", i>>

Shapes == {"ws", "text", "comment", "interp", "plain", "if", "else_if", "else",
           "if_else", "slot"}

\* The node of a given shape at position i of the parser's output
MkNode(shape, i) ==
    CASE shape = "ws" -> TextNode(i, <<" ", "\n">>)
      [] shape = "text" -> TextNode(i, <<" ", "a">>)
      [] shape = "comment" -> CommentNode(i)
      [] shape = "interp" -> InterpolationNode(i)
      [] shape = "plain" -> ElementNode(i, "div", None)
      [] shape = "if" ->
            ElementNode(i, "h1", Some([NoDirectives EXCEPT !.v_if = Some(Cond(i))]))
      [] shape = "else_if" ->
            ElementNode(i, "h2", Some([NoDirectives EXCEPT !.v_else_if = Some(Cond(i))]))
      [] shape = "else" ->
            ElementNode(i, "h3", Some([NoDirectives EXCEPT !.v_else = Some("unit")]))
      [] shape = "if_else" ->
            ElementNode(i, "h4", Some([NoDirectives EXCEPT !.v_if = Some(Cond(i)),
                                                           !.v_else = Some("unit")]))
      [] shape = "slot" ->
            ElementNode(i, "template", Some([NoDirectives EXCEPT !.v_slot = Some(NamedSlot)]))

MkList(shapes) == [i \in 1..Len(shapes) |-> MkNode(shapes[i], i)]

ShapeLists(n) == UNION {[1..k -> Shapes] : k \in 0..n}

IsElement(n) == n.type = "Element"
IsComment(n) == n.type = "Comment"
IsText(n) == n.type = "Text"
IsWhitespaceText(n) == IsText(n) /\ Len(Trim(n.text)) = 0
IsElementOrComment(n) == IsElement(n) \/ IsComment(n)

(***************************************************************************)
(* optimize_children, whitespace elision (lines 68-105)                    *)
(***************************************************************************)
\* `1 << n` on a u128 without overflow checks: the shift amount is taken modulo
\* the width, so the bit that is set or tested is n % 128
ShiftBit(n) == n % MaskBits

\* With overflow checks `1 << n` panics for n >= 128; the retain closure shifts by
\* every index of the list
ShiftOverflows(c) == Len(c) > MaskBits

FirstBits(c) ==
    IF Len(c) > 0 /\ IsWhitespaceText(c[1]) THEN {ShiftBit(0)} ELSE {}

LastBits(c) ==
    IF Len(c) > 0 /\ IsWhitespaceText(c[Len(c)]) THEN {ShiftBit(Len(c) - 1)} ELSE {}

\* The window of three nodes starting at 0-based position index
WindowMatches(c, index) ==
    /\ IsElementOrComment(c[index + 1])
    /\ IsWhitespaceText(c[index + 2])
    /\ IsElementOrComment(c[index + 3])

MiddleBits(c) ==
    {ShiftBit(index + 1) : index \in {i \in 0..(Len(c) - 3) : WindowMatches(c, i)}}

DiscardMask(c) == FirstBits(c) \cup LastBits(c) \cup MiddleBits(c)

\* children.retain(..): the node at 0-based index is kept when its mask bit is 0
ShouldRetain(mask, index) == ShiftBit(index) \notin mask

\* The nodes at the 0-based indices lo..hi that retain keeps, in index order
\* (the range is halved so that the evaluation depth stays logarithmic)
RECURSIVE RetainRange(_, _, _, _)
RetainRange(c, mask, lo, hi) ==
    IF lo > hi THEN <<>>
    ELSE IF lo = hi
         THEN IF ShouldRetain(mask, lo) THEN <<c[lo + 1]>> ELSE <<>>
         ELSE LET mid == (lo + hi) \div 2
              IN  RetainRange(c, mask, lo, mid) \o RetainRange(c, mask, mid + 1, hi)

ElideWhitespace(c) == RetainRange(c, DiscardMask(c), 0, Len(c) - 1)

(***************************************************************************)
(* optimize_children, slot reordering of components (lines 107-115)        *)
(***************************************************************************)
\* is_from_default_slot: a node carrying a named slot directive belongs to that
\* slot, every other node to the default slot
IsFromDefaultSlot(n) ==
    ~(/\ IsElement(n)
      /\ IsSome(n.directives)
      /\ IsSome(Unwrap(n.directives).v_slot)
      /\ Unwrap(Unwrap(n.directives).v_slot).slot_name \notin {None, Some("default")})

IsFromNamedSlot(n) == ~IsFromDefaultSlot(n)

\* sort_by on the boolean key is stable: false (named) first, true (default) last
SortSlots(c, kind) ==
    IF kind = "Component" /\ Len(c) > 0
    THEN SelectSeq(c, IsFromNamedSlot) \o SelectSeq(c, IsFromDefaultSlot)
    ELSE c

(***************************************************************************)
(* optimize_children, conditional folding (lines 117-214)                  *)
(***************************************************************************)
\* The state of the drain loop
FoldState(s, out) == [seq |-> s, new_children |-> out]

\* finish_seq!()
FinishSeq(st) ==
    IF IsSome(st.seq)
    THEN FoldState(None, Append(st.new_children, ConditionalSeqNode(Unwrap(st.seq))))
    ELSE st

\* finish_seq!(child) with the child pushed before the finished sequence
FinishSeqPush_ChildFirst(st, child) ==
    LET f == FinishSeq(FoldState(st.seq, Append(st.new_children, child)))
    IN  FoldState(f.seq, f.new_children)

\* finish_seq!(child)
FinishSeqPush(st, child) ==
    LET f == FinishSeq(st) IN FoldState(f.seq, Append(f.new_children, child))

\* directives.v_if.take() / directives.v_else_if.take(): the element afterwards
TakeVIf(child) ==
    [child EXCEPT !.directives = Some([Unwrap(child.directives) EXCEPT !.v_if = None])]

TakeVElseIf(child) ==
    [child EXCEPT !.directives = Some([Unwrap(child.directives) EXCEPT !.v_else_if = None])]

\* FoldVIf that overwrites the open sequence instead of finishing it first
FoldVIf_NoFinish(st, child) ==
    FoldState(Some([if_node |-> [condition |-> Unwrap(Unwrap(child.directives).v_if),
                                 node |-> TakeVIf(child)],
                    else_if_nodes |-> <<>>,
                    else_node |-> None]),
              st.new_children)

\* lines 164-175
FoldVIf(st, child) ==
    LET f == FinishSeq(st) IN
    FoldState(Some([if_node |-> [condition |-> Unwrap(Unwrap(child.directives).v_if),
                                 node |-> TakeVIf(child)],
                    else_if_nodes |-> <<>>,
                    else_node |-> None]),
              f.new_children)

\* FoldVElseIf with the new branch put in front of the earlier v-else-if branches
FoldVElseIf_Prepends(st, child) ==
    IF ~IsSome(st.seq)
    THEN FinishSeqPush(st, TakeVElseIf(child))
    ELSE FoldState(
            Some([Unwrap(st.seq) EXCEPT !.else_if_nodes =
                    <<[condition |-> Unwrap(Unwrap(child.directives).v_else_if),
                       node |-> TakeVElseIf(child)]>> \o @]),
            st.new_children)

\* lines 178-190
FoldVElseIf(st, child) ==
    IF ~IsSome(st.seq)
    THEN FinishSeqPush(st, TakeVElseIf(child))
    ELSE FoldState(
            Some([Unwrap(st.seq) EXCEPT !.else_if_nodes =
                    Append(@, [condition |-> Unwrap(Unwrap(child.directives).v_else_if),
                               node |-> TakeVElseIf(child)])]),
            st.new_children)

\* FoldVElse that forgets to push a v-else found without an open sequence
FoldVElse_DropsOrphan(st, child) ==
    IF ~IsSome(st.seq)
    THEN FinishSeq(st)
    ELSE FinishSeq(FoldState(Some([Unwrap(st.seq) EXCEPT !.else_node = Some(child)]),
                             st.new_children))

\* FoldVElse that attaches the else_node and leaves the sequence open
FoldVElse_StaysOpen(st, child) ==
    IF ~IsSome(st.seq)
    THEN FinishSeqPush(st, child)
    ELSE FoldState(Some([Unwrap(st.seq) EXCEPT !.else_node = Some(child)]),
                   st.new_children)

\* lines 193-205
FoldVElse(st, child) ==
    IF ~IsSome(st.seq)
    THEN FinishSeqPush(st, child)
    ELSE FinishSeq(FoldState(Some([Unwrap(st.seq) EXCEPT !.else_node = Some(child)]),
                             st.new_children))

\* FoldNonElement for which a comment closes the open sequence like any other node
FoldNonElement_CommentCloses(st, child) == FinishSeqPush(st, child)

\* lines 148-155: a node that is no element
FoldNonElement(st, child) ==
    IF IsComment(child) /\ IsSome(st.seq) THEN st ELSE FinishSeqPush(st, child)

\* One iteration of `for mut child in children.drain(..)`
FoldChild(st, child) ==
    IF ~IsElement(child) THEN FoldNonElement(st, child)
    ELSE IF ~IsSome(child.directives) THEN FinishSeqPush(st, child)
    ELSE IF IsSome(Unwrap(child.directives).v_if) THEN FoldVIf(st, child)
    ELSE IF IsSome(Unwrap(child.directives).v_else_if) THEN FoldVElseIf(st, child)
    ELSE IF IsSome(Unwrap(child.directives).v_else) THEN FoldVElse(st, child)
    ELSE FinishSeqPush(st, child)

RECURSIVE FoldFrom(_, _, _)
FoldFrom(st, c, i) ==
    IF i > Len(c) THEN st ELSE FoldFrom(FoldChild(st, c[i]), c, i + 1)

\* lines 118-214: the whole fold of a list
FoldConditionals(c) ==
    IF Len(c) = 0 THEN c
    ELSE FinishSeq(FoldFrom(FoldState(None, <<>>), c, 1)).new_children

\* optimize_children without overflow checks, as one function
OptimizeChildren(c, kind) == FoldConditionals(SortSlots(ElideWhitespace(c), kind))

(***************************************************************************)
(* Element classification (lines 454-480), as far as the root handling     *)
(* needs it                                                                *)
(***************************************************************************)
\* VUE_BUILTINS and is_html_tag, restricted to the tags of the model
VueBuiltins == {"component", "keep-alive", "slot", "suspense", "teleport",
                "transition", "transition-group"}

IsHtmlTag(tag) == tag \in {"div", "h1", "h2", "h3", "h4", "p", "span", "template"}

\* check_attribute_name(attr, name)
CheckAttributeName(attr, name) ==
    \/ attr.kind = "RegularAttribute" /\ attr.name = name
    \/ /\ attr.kind = "VBind"
       /\ IsSome(attr.argument)
       /\ Unwrap(attr.argument) = [tag |-> "Str", val |-> name]

\* VUE_BUILTINS.get(tag_name): the BuiltinType of a built-in tag
VueBuiltinType(tag) ==
    CASE tag = "component" -> "Component"
      [] tag = "keep-alive" -> "KeepAlive"
      [] tag = "slot" -> "Slot"
      [] tag = "suspense" -> "Suspense"
      [] tag = "teleport" -> "Teleport"
      [] tag = "transition" -> "Transition"
      [] tag = "transition-group" -> "TransitionGroup"

\* RecognizeElementKind without the special case of `component`
RecognizeElementKind_NoSpecialCase(starting_tag) ==
    IF starting_tag.tag_name \in VueBuiltins THEN "Builtin"
    ELSE IF IsHtmlTag(starting_tag.tag_name) THEN "Element" ELSE "Component"

RecognizeElementKind(starting_tag) ==
    IF starting_tag.tag_name \in VueBuiltins
    THEN IF /\ starting_tag.tag_name = "component"
            /\ ~\E i \in 1..Len(starting_tag.attributes) :
                    CheckAttributeName(starting_tag.attributes[i], "is")
         THEN "Component"
         ELSE "Builtin"
    ELSE IF IsHtmlTag(starting_tag.tag_name) THEN "Element" ELSE "Component"

\* line 471: the BuiltinType that ElementKind::Builtin carries
RecognizeBuiltinType(starting_tag) ==
    IF RecognizeElementKind(starting_tag) = "Builtin"
    THEN Some(VueBuiltinType(starting_tag.tag_name))
    ELSE None

(***************************************************************************)
(* transform_and_record_template (lines 22-63)                             *)
(***************************************************************************)
\* RetainElements that keeps every root
RetainElements_KeepsAll(roots) == roots

\* lines 27-29
RetainElements(roots) == SelectSeq(roots, IsElement)

\* lines 35-50: the synthetic <template> root; it has no place in the source, id 0
SyntheticRoot(all_roots) ==
    [type |-> "Element", id |-> 0, tag_name |-> "template", attributes |-> <<>>,
     directives |-> None, children |-> all_roots, template_scope |-> 0]

\* MergeRoots that wraps a single root as well
MergeRoots_AlwaysWraps(roots) ==
    IF Len(roots) >= 1 THEN <<SyntheticRoot(roots)>> ELSE roots

MergeRoots(roots) == IF Len(roots) > 1 THEN <<SyntheticRoot(roots)>> ELSE roots

\* visit_element_node as far as it changes the shape of the tree: the element's
\* children are optimized under the element's recognized kind (line 383) and then
\* visited in turn (lines 393-409)
RECURSIVE VisitMutWith(_)
RECURSIVE VisitElementChildren(_)
VisitElementChildren(el) ==
    LET optimized == OptimizeChildren(el.children, RecognizeElementKind(el))
    IN  [el EXCEPT !.children = [i \in 1..Len(optimized) |-> VisitMutWith(optimized[i])]]

\* visit_conditional_node (lines 420-440): every branch element is visited
VisitConditionalBranches(s) ==
    [if_node |-> [s.if_node EXCEPT !.node = VisitElementChildren(@)],
     else_if_nodes |-> [i \in 1..Len(s.else_if_nodes) |->
                            [s.else_if_nodes[i] EXCEPT !.node = VisitElementChildren(@)]],
     else_node |-> [i \in 1..Len(s.else_node) |-> VisitElementChildren(s.else_node[i])]]

\* visit_mut_with (lines 483-492)
VisitMutWith(n) ==
    IF n.type = "Element" THEN VisitElementChildren(n)
    ELSE IF n.type = "ConditionalSeq" THEN ConditionalSeqNode(VisitConditionalBranches(n.seq))
    ELSE n

(***************************************************************************)
(* visit_element_node, the patch-flag loop over the attributes             *)
(* (lines 301-364)                                                         *)
(***************************************************************************)
DefaultPatchHints == [flags |-> {}, props |-> <<>>]

\* v_bind.argument: Option<StrOrExpr>
StrArg(name) == Some([tag |-> "Str", val |-> name])
ExprArg == Some([tag |-> "Expr", val |-> "computed"])

\* transform_expr returns whether the expression has dynamic bindings; the
\* expression of the model carries that answer
TransformExpr(expr) == expr.is_dynamic

VBind(arg, dyn) == [kind |-> "VBind", argument |-> arg, value |-> [is_dynamic |-> dyn]]
VOn == [kind |-> "VOn", handler |-> Some([is_dynamic |-> TRUE])]
RegularAttribute(n) == [kind |-> "RegularAttribute", name |-> n]

ArgumentNames == {"key", "class", "style", "foo"}

AttributeShapes ==
    {VBind(StrArg(n), d) : n \in ArgumentNames, d \in BOOLEAN}
    \cup {VBind(None, d) : d \in BOOLEAN}
    \cup {VBind(ExprArg, d) : d \in BOOLEAN}
    \cup {VOn, RegularAttribute("id")}

AttributeLists(n) == UNION {[1..k -> AttributeShapes] : k \in 0..n}

\* `let Some(StrOrExpr::Str(ref argument)) = v_bind.argument else {..}`
HasLiteralArgument(v_bind) ==
    IsSome(v_bind.argument) /\ Unwrap(v_bind.argument).tag = "Str"

\* SetFullProps that leaves the recorded prop names in place
SetFullProps_KeepsNames(hints) ==
    [hints EXCEPT !.flags = (@ \ {"Props", "Class", "Style"}) \cup {"FullProps"}]

\* lines 317-323
SetFullProps(hints) ==
    [flags |-> (hints.flags \ {"Props", "Class", "Style"}) \cup {"FullProps"},
     props |-> <<>>]

\* AddPropHint that routes `class` and `style` of a component like those of an element
AddPropHint_KindIgnored(hints, argument, is_component) ==
    IF argument = "class" THEN [hints EXCEPT !.flags = @ \cup {"Class"}]
    ELSE IF argument = "style" THEN [hints EXCEPT !.flags = @ \cup {"Style"}]
    ELSE [flags |-> hints.flags \cup {"Props"}, props |-> Append(hints.props, argument)]

\* lines 337-352
AddPropHint(hints, argument, is_component) ==
    IF is_component
    THEN [flags |-> hints.flags \cup {"Props"}, props |-> Append(hints.props, argument)]
    ELSE IF argument = "class" THEN [hints EXCEPT !.flags = @ \cup {"Class"}]
    ELSE IF argument = "style" THEN [hints EXCEPT !.flags = @ \cup {"Style"}]
    ELSE [flags |-> hints.flags \cup {"Props"}, props |-> Append(hints.props, argument)]

\* VisitVBind that treats `key` like any other name
VisitVBind_KeyCounts(hints, v_bind, is_component) ==
    LET has_bindings == TransformExpr(v_bind.value) IN
    IF ~HasLiteralArgument(v_bind) THEN SetFullProps(hints)
    ELSE IF ~has_bindings \/ "FullProps" \in hints.flags THEN hints
    ELSE AddPropHint(hints, Unwrap(v_bind.argument).val, is_component)

\* VisitVBind without the check that FullProps is already set
VisitVBind_IgnoresFullProps(hints, v_bind, is_component) ==
    LET has_bindings == TransformExpr(v_bind.value) IN
    IF ~HasLiteralArgument(v_bind) THEN SetFullProps(hints)
    ELSE IF ~has_bindings THEN hints
    ELSE IF Unwrap(v_bind.argument).val = "key" THEN hints
    ELSE AddPropHint(hints, Unwrap(v_bind.argument).val, is_component)

\* lines 311-353: one VBind
VisitVBind(hints, v_bind, is_component) ==
    LET has_bindings == TransformExpr(v_bind.value) IN
    IF ~HasLiteralArgument(v_bind) THEN SetFullProps(hints)
    ELSE IF ~has_bindings \/ "FullProps" \in hints.flags THEN hints
    ELSE IF Unwrap(v_bind.argument).val = "key" THEN hints
    ELSE AddPropHint(hints, Unwrap(v_bind.argument).val, is_component)

\* One iteration of `for attr in element_node.starting_tag.attributes.iter_mut()`
VisitAttribute(hints, attr, is_component) ==
    IF attr.kind = "VBind" THEN VisitVBind(hints, attr, is_component) ELSE hints

(***************************************************************************)
(* TemplateVisitor: the scope table and the resolver as the visitor uses   *)
(* them                                                                    *)
(***************************************************************************)
\* TemplateScope { variables, parent }
TemplateScope(vs, p) == [variables |-> vs, parent |-> p]

\* The visitor and the helper it borrows, as one value
Visitor(scopes, scope, log) ==
    [template_scopes |-> scopes, current_scope |-> scope, resolved |-> log]

\* collect_variables(pattern, scope): the names the pattern binds are appended
CollectVariables(pattern, scope) == [scope EXCEPT !.variables = @ \o pattern]

\* The names an expression resolved in `scope` finds as template locals: those of
\* the scope and of its parents, innermost to outermost, up to the scope that is
\* its own parent; a scope id without an entry in the table has none
RECURSIVE ScopeChainVariables(_, _)
ScopeChainVariables(scopes, scope) ==
    IF scope + 1 > Len(scopes) THEN {}
    ELSE LET s == scopes[scope + 1] IN
         {s.variables[k] : k \in 1..Len(s.variables)}
            \cup (IF s.parent = scope THEN {}
                  ELSE ScopeChainVariables(scopes, s.parent))

\* scope_helper.transform_expr(expr, scope) seen from the visitor: the expression
\* `role` of the node `owner` is resolved in `scope`, with the names visible there
Resolve(vis, owner, role, scope) ==
    [vis EXCEPT !.resolved =
        Append(@, [owner |-> owner, role |-> role, scope |-> scope,
                   visible |-> ScopeChainVariables(vis.template_scopes, scope)])]

(***************************************************************************)
(* visit_element_node from its entry to the optimization of the children   *)
(* (lines 229-383)                                                         *)
(***************************************************************************)
\* lines 271-275
HasKey(attrs) == \E i \in 1..Len(attrs) : CheckAttributeName(attrs[i], "key")

\* FragmentFlag that does not look for a key
FragmentFlag_KeyIgnored(is_dynamic, has_key) ==
    IF ~is_dynamic THEN "StableFragment" ELSE "UnkeyedFragment"

\* lines 265-282: the fragment flag of a v-for
FragmentFlag(is_dynamic, has_key) ==
    IF ~is_dynamic THEN "StableFragment"
    ELSE IF has_key THEN "KeyedFragment" ELSE "UnkeyedFragment"

\* lines 254-283, the directive afterwards
VisitVFor(v_for, attrs) ==
    [v_for EXCEPT !.patch_flags =
        @ \cup {FragmentFlag(TransformExpr(v_for.iterable), HasKey(attrs))}]

\* lines 303-364: the attribute loop from the i-th attribute on, with the calls of
\* transform_expr it makes (311-314 for a VBind, 355-360 for a VOn with a handler)
RECURSIVE VisitAttributesFrom(_, _, _, _, _, _)
VisitAttributesFrom(vis, hints, el, scope_to_use, is_component, i) ==
    IF i > Len(el.attributes) THEN [vis |-> vis, hints |-> hints]
    ELSE LET attr == el.attributes[i]
             transforms == \/ attr.kind = "VBind"
                           \/ attr.kind = "VOn" /\ IsSome(attr.handler)
         IN  VisitAttributesFrom(
                IF transforms THEN Resolve(vis, el.id, attr.kind, scope_to_use) ELSE vis,
                VisitAttribute(hints, attr, is_component),
                el, scope_to_use, is_component, i + 1)

\* Does the element open a scope (line 245)
OpensScope(el) ==
    /\ IsSome(el.directives)
    /\ IsSome(Unwrap(el.directives).v_for) \/ IsSome(Unwrap(el.directives).v_slot)

\* lines 229-383: the visitor and the element when the loop over the children starts
VisitElementHead(vis, el) ==
    LET parent_scope == vis.current_scope
        kind == RecognizeElementKind(el)
        v_for == IF IsSome(el.directives) THEN Unwrap(el.directives).v_for ELSE None
        v_slot == IF IsSome(el.directives) THEN Unwrap(el.directives).v_slot ELSE None
        scope_to_use == IF OpensScope(el) THEN Len(vis.template_scopes) ELSE parent_scope
        opened ==
            IF OpensScope(el)
            THEN [vis EXCEPT !.template_scopes =
                                Append(@, TemplateScope(<<>>, parent_scope))]
            ELSE vis
        looped ==
            IF IsSome(v_for)
            THEN Resolve([opened EXCEPT !.template_scopes[scope_to_use + 1] =
                                CollectVariables(Unwrap(v_for).itervar, @)],
                         el.id, "v_for", scope_to_use)
            ELSE opened
        slotted ==
            IF IsSome(v_slot) /\ IsSome(Unwrap(v_slot).value)
            THEN [looped EXCEPT !.template_scopes[scope_to_use + 1] =
                                CollectVariables(Unwrap(Unwrap(v_slot).value), @)]
            ELSE looped
        scoped == [slotted EXCEPT !.current_scope = scope_to_use]
        after == VisitAttributesFrom(scoped, el.patch_hints, el, scope_to_use,
                                     kind = "Component", 1)
    IN  [vis |-> after.vis,
         parent_scope |-> parent_scope,
         node |-> [el EXCEPT
                    !.kind = kind,
                    !.builtin_type = RecognizeBuiltinType(el),
                    !.template_scope = scope_to_use,
                    !.directives =
                        IF IsSome(v_for)
                        THEN Some([Unwrap(@) EXCEPT
                                    !.v_for = Some(VisitVFor(Unwrap(v_for), el.attributes))])
                        ELSE @,
                    !.patch_hints = after.hints,
                    !.children = OptimizeChildren(@, kind)]]

(***************************************************************************)
(* The visitor's calls in progress. A frame is one call of                 *)
(* visit_element_node (lines 388-417, the loop over the children), one     *)
(* call of visit_conditional_node (lines 420-440), or the loop over        *)
(* template.roots (lines 58-62); `items` is what the call iterates over,   *)
(* `visited` the items it has visited.                                     *)
(***************************************************************************)
Frame(kind, node, items, parent_scope, text_only) ==
    [kind |-> kind, node |-> node, items |-> items, i |-> 0, visited |-> <<>>,
     parent_scope |-> parent_scope,
     is_children_text_only |-> text_only,
     has_dynamic_interpolation |-> FALSE]

RootsFrame(roots) == Frame("roots", <<>>, roots, 0, FALSE)

\* TextOnlyAtStart that applies to every kind of element
TextOnlyAtStart_AnyKind(node) == Len(node.children) # 0

\* lines 388-389
TextOnlyAtStart(node) == node.kind = "Element" /\ Len(node.children) # 0

ElementFrame(node, parent_scope) ==
    Frame("element", node, node.children, parent_scope, TextOnlyAtStart(node))

\* The branches of a sequence in the order visit_conditional_node takes them
Branches(s) ==
    <<[condition |-> Some(s.if_node.condition), node |-> s.if_node.node]>>
        \o [m \in 1..Len(s.else_if_nodes) |->
                [condition |-> Some(s.else_if_nodes[m].condition),
                 node |-> s.else_if_nodes[m].node]]
        \o [m \in 1..Len(s.else_node) |-> [condition |-> None, node |-> s.else_node[m]]]

ConditionalFrame(n, parent_scope) ==
    Frame("conditional", n, Branches(n.seq), parent_scope, FALSE)

\* The sequence whose branch elements have been visited in place
VisitedSeq(s, visited) ==
    [if_node |-> [s.if_node EXCEPT !.node = visited[1]],
     else_if_nodes |-> [m \in 1..Len(s.else_if_nodes) |->
                            [s.else_if_nodes[m] EXCEPT !.node = visited[m + 1]]],
     else_node |-> [m \in 1..Len(s.else_node) |-> visited[Len(visited)]]]

\* lines 396-400 for an Element or ConditionalSeq child that has been visited, and
\* the same step of the loops of lines 431-439 and 58-62
ReturnTo(frame, node) ==
    [frame EXCEPT !.visited = Append(@, node),
                  !.i = @ + 1,
                  !.is_children_text_only = FALSE]

\* lines 442-450
VisitInterpolation(vis, interpolation) ==
    [vis |-> Resolve(vis, interpolation.id, "interpolation", vis.current_scope),
     node |-> [interpolation EXCEPT !.template_scope = vis.current_scope,
                                    !.patch_flag = TransformExpr(interpolation.value)]]

\* lines 411-414: the element when its call returns
LeaveElementNode(frame) ==
    [frame.node EXCEPT
        !.children = frame.visited,
        !.patch_hints.flags =
            IF frame.is_children_text_only /\ frame.has_dynamic_interpolation
            THEN @ \cup {"Text"}
            ELSE @]

(***************************************************************************)
(* CodegenContext::generate_transition_group (transition_group.rs 7-30)    *)
(* and the generators it calls. An argument of the generated call is a     *)
(* record tagged by `arg`.                                                 *)
(***************************************************************************)
IdentArg(sym) == [arg |-> "ident", sym |-> sym]
NullArg == [arg |-> "null"]
ObjectArg(props) == [arg |-> "object", props |-> props]
FlagsArg(flags) == [arg |-> "patch_flags", flags |-> flags]
PropNamesArg(names) == [arg |-> "array", names |-> names]

\* get_and_add_import_ident(VueImports::TransitionGroup)
TransitionGroupIdent == IdentArg("_TransitionGroup")

\* One property of the attribute object: a literal for a regular attribute, the
\* bound expression for a v-bind
AttrProp(attr) ==
    IF attr.kind = "RegularAttribute"
    THEN [key |-> attr.name, value |-> "literal"]
    ELSE [key |-> Unwrap(attr.argument).val, value |-> "expression"]

\* generate_builtin_attrs: None without attributes, else their object in source order
GenerateBuiltinAttrs(attrs) ==
    IF Len(attrs) = 0 THEN None
    ELSE Some(ObjectArg([k \in 1..Len(attrs) |-> AttrProp(attrs[k])]))

\* generate_builtin_slots: None without children, else the slots object: the
\* default slot as a closure over the generated children, wrapped by withCtx, and
\* the marker `_: 1`
GenerateBuiltinSlots(el) ==
    IF Len(el.children) = 0 THEN None
    ELSE Some(ObjectArg(<<[key |-> "default",
                           value |-> [wrapped_by |-> "_withCtx",
                                      returns |-> [k \in 1..Len(el.children) |->
                                                        el.children[k].type]]],
                          [key |-> "_", value |-> 1]>>))

\* generate_componentlike: createVNode(identifier, attributes, slots, flags, names)
\* where trailing absent arguments are left out and absent ones before a present
\* one are null
GenerateComponentlike(identifier, attrs, slots, hints) ==
    LET flags == IF hints.flags = {} THEN None ELSE Some(FlagsArg(hints.flags))
        names == IF hints.props = <<>> THEN None ELSE Some(PropNamesArg(hints.props))
        opt == <<attrs, slots, flags, names>>
        last == IF \E k \in 1..4 : IsSome(opt[k])
                THEN CHOOSE k \in 1..4 : IsSome(opt[k]) /\ \A m \in (k + 1)..4 : ~IsSome(opt[m])
                ELSE 0
    IN  [callee |-> "_createVNode",
         args |-> <<identifier>>
                    \o [k \in 1..last |-> IF IsSome(opt[k]) THEN Unwrap(opt[k]) ELSE NullArg]]

\* GenerateTransitionGroup that passes the slots where the attributes belong
GenerateTransitionGroup_Swapped(el) ==
    GenerateComponentlike(TransitionGroupIdent,
                          GenerateBuiltinSlots(el),
                          GenerateBuiltinAttrs(el.attributes),
                          el.patch_hints)

\* transition_group.rs lines 7-30
GenerateTransitionGroup(el) ==
    GenerateComponentlike(TransitionGroupIdent,
                          GenerateBuiltinAttrs(el.attributes),
                          GenerateBuiltinSlots(el),
                          el.patch_hints)

(***************************************************************************)
(* Inputs of the visitor: the trees the parser hands over. The id of a     *)
(* node is its path from the root, so that the ancestors of a node are the *)
(* prefixes of its id.                                                     *)
(***************************************************************************)
\* An expression, reduced to the answer transform_expr gives for it
Expression(dyn) == [is_dynamic |-> dyn]

ParsedElement(p, tag, attrs, dirs, kids) ==
    [type |-> "Element", id |-> p, tag_name |-> tag, attributes |-> attrs,
     directives |-> dirs, children |-> kids, template_scope |-> 0,
     kind |-> "Element", builtin_type |-> None, patch_hints |-> DefaultPatchHints]

ParsedInterpolation(p, dyn) ==
    [type |-> "Interpolation", id |-> p, value |-> Expression(dyn),
     template_scope |-> 0, patch_flag |-> FALSE]

\* The names bound by the v-for / the v-slot of the element with id p
ItemVariable(p) == <<"item", p>>
SlotVariable(p) == <<"slot", p>>

\* What an element is made of: loop is "none", "dynamic" or "static" (the
\* classification of the iterable), slot is "none", "bound" (v-slot with a value)
\* or "unbound", cond is "none", "if", "else_if" or "else"
ElementShape(tag, loop, slot, cond, attrs) ==
    [tag |-> tag, loop |-> loop, slot |-> slot, cond |-> cond, attrs |-> attrs]

ShapeDirectives(sh, p) ==
    IF sh.loop = "none" /\ sh.slot = "none" /\ sh.cond = "none" THEN None
    ELSE Some([v_if |-> IF sh.cond = "if" THEN Some(Expression(TRUE)) ELSE None,
               v_else_if |-> IF sh.cond = "else_if" THEN Some(Expression(TRUE)) ELSE None,
               v_else |-> IF sh.cond = "else" THEN Some("unit") ELSE None,
               v_slot |-> IF sh.slot = "none" THEN None
                          ELSE Some([slot_name |-> Some("named"),
                                     value |-> IF sh.slot = "bound"
                                               THEN Some(<<SlotVariable(p)>>)
                                               ELSE None]),
               v_for |-> IF sh.loop = "none" THEN None
                         ELSE Some([itervar |-> <<ItemVariable(p)>>,
                                    iterable |-> Expression(sh.loop = "dynamic"),
                                    patch_flags |-> {}])])

PlainShape == ElementShape("div", "none", "none", "none", <<>>)

\* A tree before it has ids: a leaf of some sort or an element with its children
Leaf(sort) == [sort |-> sort, el |-> PlainShape, kids |-> <<>>]
El(sh, kids) == [sort |-> "element", el |-> sh, kids |-> kids]

RECURSIVE MkTree(_, _)
MkTree(t, p) ==
    CASE t.sort = "interp_dynamic" -> ParsedInterpolation(p, TRUE)
      [] t.sort = "interp_static" -> ParsedInterpolation(p, FALSE)
      [] t.sort = "text" -> TextNode(p, <<"a">>)
      [] t.sort = "ws" -> TextNode(p, <<" ">>)
      [] t.sort = "comment" -> CommentNode(p)
      [] t.sort = "element" ->
            ParsedElement(p, t.el.tag, t.el.attrs, ShapeDirectives(t.el, p),
                          [j \in 1..Len(t.kids) |-> MkTree(t.kids[j], Append(p, j))])

SeqsUpTo(S, n) == UNION {[1..k -> S] : k \in 0..n}

\* Trees with scoping elements at two levels below a plain root
ForShape == ElementShape("li", "dynamic", "none", "none", <<>>)
BindShape == ElementShape("span", "none", "none", "none", <<VBind(StrArg("foo"), TRUE)>>)
ScopedShapes ==
    {PlainShape, ForShape, BindShape,
     ElementShape("template", "none", "bound", "none", <<>>),
     ElementShape("div", "dynamic", "none", "if", <<>>),
     ElementShape("div", "none", "none", "else", <<>>)}
InnerNodes == {Leaf("interp_dynamic"), El(ForShape, <<>>), El(BindShape, <<>>)}
OuterNodes ==
    {Leaf("interp_dynamic")}
        \cup {El(sh, k) : sh \in ScopedShapes, k \in {<<>>} \cup {<<n>> : n \in InnerNodes}}
ScopeTrees == {El(PlainShape, k) : k \in SeqsUpTo(OuterNodes, MaxKids)}

\* One v-for element under a plain root, with every way of carrying a key
KeyAttributeShapes ==
    {RegularAttribute("key"), RegularAttribute("id"), VBind(StrArg("key"), TRUE),
     VBind(ExprArg, TRUE)}
LoopTrees ==
    {El(PlainShape, <<El(ElementShape("li", loop, "none", cond, attrs), <<>>)>>) :
        loop \in {"dynamic", "static"}, cond \in {"none", "if"},
        attrs \in SeqsUpTo(KeyAttributeShapes, MaxAttrs)}

\* One element of every tag, with and without an `is`
Tags == VueBuiltins \cup {"div", "h1", "h2", "h3", "h4", "p", "span", "template"}
            \cup {"my-comp", "MyItem"}
IsAttributeShapes ==
    {RegularAttribute("is"), RegularAttribute("id"), VBind(StrArg("is"), TRUE)}
TagTrees ==
    {El(ElementShape(tag, "none", "none", "none", attrs), <<>>) :
        tag \in Tags, attrs \in SeqsUpTo(IsAttributeShapes, MaxAttrs)}

\* One element of each kind over every short list of children
TextTags == {"div", "my-comp", "transition"}
TextAttributeLists ==
    {<<>>, <<VBind(StrArg("class"), TRUE)>>, <<VBind(StrArg("style"), TRUE)>>,
     <<VBind(StrArg("foo"), TRUE)>>, <<VBind(ExprArg, TRUE)>>}
TextChildren ==
    {Leaf("interp_dynamic"), Leaf("interp_static"), Leaf("text"), Leaf("ws"),
     Leaf("comment"), El(PlainShape, <<>>),
     El(ElementShape("h1", "none", "none", "if", <<>>), <<>>)}
TextTrees ==
    {El(ElementShape(tag, "none", "none", "none", attrs), k) :
        tag \in TextTags, attrs \in TextAttributeLists,
        k \in SeqsUpTo(TextChildren, MaxKids)}

\* Conditional branches under a plain root, with and without a scope of their own,
\* and an element with both scoping directives
BranchShapes ==
    {ElementShape("template", "dynamic", "bound", "none", <<>>),
     ElementShape("div", "none", "none", "if", <<>>),
     ElementShape("div", "dynamic", "none", "if", <<>>),
     ElementShape("template", "none", "bound", "if", <<>>),
     ElementShape("div", "none", "none", "else_if", <<>>),
     ElementShape("div", "dynamic", "none", "else_if", <<>>),
     ElementShape("div", "none", "none", "else", <<>>)}
BranchTrees ==
    {El(PlainShape, k) : k \in SeqsUpTo({El(sh, <<>>) : sh \in BranchShapes}, MaxLen)}

\* template.roots when the visitor is created: at most one root (lines 35-50)
VisitInputs ==
    {<<MkTree(t, <<1>>)>> :
        t \in ScopeTrees \cup LoopTrees \cup TagTrees \cup TextTrees \cup BranchTrees}

\* The scope table of the helper handed to transform_and_record_template: that of
\* BindingsHelper::default(), or one that already holds the template's root scope
HelperScopes == {<<>>, <<TemplateScope(<<>>, 0)>>}

(***************************************************************************)
(* Inputs of the code generator: <transition-group> elements as the        *)
(* transform leaves them                                                   *)
(***************************************************************************)
BuiltinAttributeShapes ==
    {RegularAttribute("foo"), RegularAttribute("id"),
     VBind(StrArg("baz"), TRUE), VBind(StrArg("name"), FALSE)}

\* Lists of attributes with no attribute twice
BuiltinAttributeLists ==
    {a \in SeqsUpTo(BuiltinAttributeShapes, MaxAttrs) :
        \A i, j \in 1..Len(a) : i # j => a[i] # a[j]}

BuiltinChildren == {Leaf("text"), Leaf("interp_dynamic"), El(PlainShape, <<>>)}

\* The hints the attribute loop leaves on a Builtin with these attributes
HintsOf(attrs) ==
    VisitAttributesFrom(Visitor(<<>>, 0, <<>>), DefaultPatchHints,
                        [id |-> <<1>>, attributes |-> attrs], 0, FALSE, 1).hints

TransitionGroup(attrs, kids, hints) ==
    [MkTree(El(ElementShape("transition-group", "none", "none", "none", attrs), kids),
            <<1>>)
        EXCEPT !.kind = "Builtin",
               !.builtin_type = Some("TransitionGroup"),
               !.patch_hints = hints]

TransitionGroups ==
    UNION {{TransitionGroup(attrs, kids, hints) :
                kids \in SeqsUpTo(BuiltinChildren, MaxKids),
                hints \in {DefaultPatchHints, HintsOf(attrs)}} :
            attrs \in BuiltinAttributeLists}

(***************************************************************************)
(* Inputs                                                                  *)
(***************************************************************************)
ShortInputs == {MkList(sh) : sh \in ShapeLists(MaxLen)}

\* Sibling lists longer than the mask: one node, plain elements up to index
\* MaskBits - 1, then up to MaxTail nodes at the indices MaskBits and above
LongShapes == {"ws", "plain", "interp"}

Padding == [i \in 1..(MaskBits - 1) |-> "plain"]

LongInputs ==
    {MkList(<<h>> \o Padding \o t) :
        h \in {"ws", "plain"},
        t \in UNION {[1..k -> LongShapes] : k \in 1..MaxTail}}

IdleAttrs ==
    /\ attributes = <<>>
    /\ attr_idx = 0
    /\ patch_hints = DefaultPatchHints
    /\ hints_log = <<>>

IdleVisit ==
    /\ stack = <<>>
    /\ template_scopes = <<>>
    /\ current_scope = 0
    /\ resolved = <<>>
    /\ generated = None

IdleOptimize ==
    /\ pass = 0
    /\ input = <<>>
    /\ children = <<>>
    /\ fold_input = <<>>
    /\ idx = 0
    /\ seq = None
    /\ new_children = <<>>

\* optimize_children is entered on the children of an element of any kind
InitChildren ==
    /\ level = "children"
    /\ pc = "start"
    /\ pass = 1
    /\ input \in ShortInputs \cup LongInputs
    /\ element_kind \in ElementKinds
    /\ children = input
    /\ fold_input = <<>>
    /\ idx = 0
    /\ seq = None
    /\ new_children = <<>>
    /\ IdleAttrs
    /\ IdleVisit

\* transform_and_record_template is entered on the roots of a template
InitRoots ==
    /\ level = "roots"
    /\ pc = "retain"
    /\ pass = 1
    /\ input \in ShortInputs
    /\ element_kind = "Element"
    /\ children = input
    /\ fold_input = <<>>
    /\ idx = 0
    /\ seq = None
    /\ new_children = <<>>
    /\ IdleAttrs
    /\ IdleVisit

\* visit_element_node reaches the attribute loop of a freshly parsed element
InitAttrs ==
    /\ level = "attrs"
    /\ pc = "attrs"
    /\ element_kind \in ElementKinds
    /\ attributes \in AttributeLists(MaxAttrs)
    /\ attr_idx = 0
    /\ patch_hints = DefaultPatchHints
    /\ hints_log = <<>>
    /\ IdleOptimize
    /\ IdleVisit

\* The visitor is created on the roots left by the merge (lines 52-55)
InitVisit ==
    /\ level = "visit"
    /\ pc = "visit"
    /\ pass = 0
    /\ input \in VisitInputs
    /\ element_kind = "Element"
    /\ children = input
    /\ fold_input = <<>>
    /\ idx = 0
    /\ seq = None
    /\ new_children = <<>>
    /\ IdleAttrs
    /\ stack = <<RootsFrame(input)>>
    /\ template_scopes \in HelperScopes
    /\ current_scope = 0
    /\ resolved = <<>>
    /\ generated = None

\* generate_transition_group is called on a <transition-group> element
InitCodegen ==
    /\ level = "codegen"
    /\ pc = "generate"
    /\ pass = 0
    /\ input \in {<<el>> : el \in TransitionGroups}
    /\ element_kind = "Builtin"
    /\ children = input
    /\ fold_input = <<>>
    /\ idx = 0
    /\ seq = None
    /\ new_children = <<>>
    /\ IdleAttrs
    /\ IdleVisit

Init == InitChildren \/ InitRoots

(***************************************************************************)
(* Actions of optimize_children                                            *)
(***************************************************************************)
\* lines 68-105 in a build without overflow checks
Elide ==
    /\ pc = "start"
    /\ children' = ElideWhitespace(children)
    /\ pc' = "sort"
    /\ UNCHANGED <<level, pass, input, element_kind, fold_input, idx, seq, new_children>>
    /\ UNCHANGED <<attrVars, generated, visitVars>>

\* lines 68-105 in a build with overflow checks, on a list whose indices reach
\* the width of the mask: `1 << index` panics
ElidePanics ==
    /\ pc = "start"
    /\ ShiftOverflows(children)
    /\ pc' = "panic"
    /\ UNCHANGED <<level, optVars>>
    /\ UNCHANGED <<attrVars, generated, visitVars>>

\* lines 107-120: the slot reordering, and the entry into the fold
Reorder ==
    /\ pc = "sort"
    /\ children' = SortSlots(children, element_kind)
    /\ fold_input' = children'
    /\ pc' = IF Len(children') # 0 THEN "fold" ELSE "done"
    /\ idx' = 0
    /\ seq' = None
    /\ new_children' = <<>>
    /\ UNCHANGED <<level, pass, input, element_kind>>
    /\ UNCHANGED <<attrVars, generated, visitVars>>

\* lines 145-209: one iteration of the drain loop
DrainChild ==
    /\ pc = "fold"
    /\ idx < Len(children)
    /\ LET st == FoldChild(FoldState(seq, new_children), children[idx + 1]) IN
        /\ seq' = st.seq
        /\ new_children' = st.new_children
    /\ idx' = idx + 1
    /\ UNCHANGED <<level, pc, pass, input, element_kind, children, fold_input>>
    /\ UNCHANGED <<attrVars, generated, visitVars>>

\* lines 211-213
FinishFold ==
    /\ pc = "fold"
    /\ idx = Len(children)
    /\ children' = FinishSeq(FoldState(seq, new_children)).new_children
    /\ seq' = None
    /\ new_children' = <<>>
    /\ pc' = "done"
    /\ UNCHANGED <<level, pass, input, element_kind, fold_input, idx>>
    /\ UNCHANGED <<attrVars, generated, visitVars>>

\* optimize_children is entered again on its own result, as the visit of an element
\* whose children are already optimized does (line 383 on the synthetic root)
Reoptimize ==
    /\ level = "children"
    /\ pc = "done"
    /\ pass = 1
    /\ pass' = 2
    /\ input' = children
    /\ pc' = "start"
    /\ UNCHANGED <<level, element_kind, children, fold_input, idx, seq, new_children>>
    /\ UNCHANGED <<attrVars, generated, visitVars>>

(***************************************************************************)
(* Actions of transform_and_record_template                                *)
(***************************************************************************)
\* lines 27-29
RetainRoots ==
    /\ level = "roots"
    /\ pc = "retain"
    /\ children' = RetainElements(children)
    /\ pc' = "start"
    /\ UNCHANGED <<level, pass, input, element_kind, fold_input, idx, seq, new_children>>
    /\ UNCHANGED <<attrVars, generated, visitVars>>

\* lines 35-50
WrapRoots ==
    /\ level = "roots"
    /\ pc = "done"
    /\ children' = MergeRoots(children)
    /\ pc' = "merged"
    /\ UNCHANGED <<level, pass, input, element_kind, fold_input, idx, seq, new_children>>
    /\ UNCHANGED <<attrVars, generated, visitVars>>

\* lines 52-62
VisitRoots ==
    /\ level = "roots"
    /\ pc = "merged"
    /\ children' = [i \in 1..Len(children) |-> VisitMutWith(children[i])]
    /\ pc' = "visited"
    /\ UNCHANGED <<level, pass, input, element_kind, fold_input, idx, seq, new_children>>
    /\ UNCHANGED <<attrVars, generated, visitVars>>

(***************************************************************************)
(* Actions of the attribute loop                                           *)
(***************************************************************************)
VisitNextAttribute ==
    /\ level = "attrs"
    /\ pc = "attrs"
    /\ attr_idx < Len(attributes)
    /\ patch_hints' = VisitAttribute(patch_hints, attributes[attr_idx + 1],
                                     element_kind = "Component")
    /\ hints_log' = Append(hints_log, patch_hints')
    /\ attr_idx' = attr_idx + 1
    /\ UNCHANGED <<level, pc, attributes, optVars, visitVars, generated>>

AttributesDone ==
    /\ level = "attrs"
    /\ pc = "attrs"
    /\ attr_idx = Len(attributes)
    /\ pc' = "attrs_done"
    /\ UNCHANGED <<level, attributes, attr_idx, patch_hints, hints_log, optVars, visitVars, generated>>

(***************************************************************************)
(* Actions of the visitor                                                  *)
(***************************************************************************)
Top == stack[Len(stack)]
NextItem == Top.items[Top.i + 1]
TheVisitor == Visitor(template_scopes, current_scope, resolved)

Visiting == level = "visit" /\ pc = "visit" /\ Len(stack) > 0

\* The stack with its top frame replaced
WithTop(frame) == [stack EXCEPT ![Len(stack)] = frame]

\* The stack after the call on top has returned `node` to its caller
Returned(node) ==
    LET rest == SubSeq(stack, 1, Len(stack) - 1)
    IN  [rest EXCEPT ![Len(rest)] = ReturnTo(@, node)]

SetVisitor(vis) ==
    /\ template_scopes' = vis.template_scopes
    /\ current_scope' = vis.current_scope
    /\ resolved' = vis.resolved

\* visit_mut_with on an Element child or root (line 486): visit_element_node runs
\* up to its loop over the children
EnterElement ==
    /\ Visiting
    /\ Top.kind \in {"element", "roots"}
    /\ Top.i < Len(Top.items)
    /\ IsElement(NextItem)
    /\ LET head == VisitElementHead(TheVisitor, NextItem) IN
        /\ stack' = Append(stack, ElementFrame(head.node, head.parent_scope))
        /\ SetVisitor(head.vis)
    /\ UNCHANGED <<level, pc, optVars, attrVars, generated>>

\* visit_mut_with on a ConditionalSeq child or root (line 487)
EnterConditional ==
    /\ Visiting
    /\ Top.kind \in {"element", "roots"}
    /\ Top.i < Len(Top.items)
    /\ NextItem.type = "ConditionalSeq"
    /\ stack' = Append(stack, ConditionalFrame(NextItem, current_scope))
    /\ UNCHANGED <<level, pc, optVars, attrVars, generated, template_scopes, current_scope, resolved>>

\* lines 427-439: the next branch of the sequence; its condition, when it has one,
\* is transformed in the current scope, then its element is visited
VisitBranch ==
    /\ Visiting
    /\ Top.kind = "conditional"
    /\ Top.i < Len(Top.items)
    /\ LET branch == NextItem
           vis == IF IsSome(branch.condition)
                  THEN Resolve(TheVisitor, branch.node.id, "condition", current_scope)
                  ELSE TheVisitor
           head == VisitElementHead(vis, branch.node)
       IN  /\ stack' = Append(stack, ElementFrame(head.node, head.parent_scope))
           /\ SetVisitor(head.vis)
    /\ UNCHANGED <<level, pc, optVars, attrVars, generated>>

\* lines 394 and 403-405: an Interpolation child
VisitInterpolationChild ==
    /\ Visiting
    /\ Top.kind = "element"
    /\ Top.i < Len(Top.items)
    /\ NextItem.type = "Interpolation"
    /\ LET r == VisitInterpolation(TheVisitor, NextItem) IN
        /\ stack' = WithTop([Top EXCEPT
                                !.visited = Append(@, r.node),
                                !.i = @ + 1,
                                !.has_dynamic_interpolation = @ \/ r.node.patch_flag])
        /\ SetVisitor(r.vis)
    /\ UNCHANGED <<level, pc, optVars, attrVars, generated>>

\* lines 394 and 407: a Text or Comment child
VisitTextOrComment ==
    /\ Visiting
    /\ Top.kind = "element"
    /\ Top.i < Len(Top.items)
    /\ NextItem.type \in {"Text", "Comment"}
    /\ stack' = WithTop([Top EXCEPT !.visited = Append(@, NextItem), !.i = @ + 1])
    /\ UNCHANGED <<level, pc, optVars, attrVars, generated, template_scopes, current_scope, resolved>>

\* LeaveElement that returns without restoring the parent scope
LeaveElement_ScopeKept ==
    /\ Visiting
    /\ Top.kind = "element"
    /\ Top.i = Len(Top.items)
    /\ stack' = Returned(LeaveElementNode(Top))
    /\ UNCHANGED <<level, pc, optVars, attrVars, generated, template_scopes, current_scope,
                   resolved>>

\* lines 411-417: the Text flag, the parent scope restored, the return
LeaveElement ==
    /\ Visiting
    /\ Top.kind = "element"
    /\ Top.i = Len(Top.items)
    /\ stack' = Returned(LeaveElementNode(Top))
    /\ current_scope' = Top.parent_scope
    /\ UNCHANGED <<level, pc, optVars, attrVars, generated, template_scopes, resolved>>

\* line 440: visit_conditional_node returns
LeaveConditional ==
    /\ Visiting
    /\ Top.kind = "conditional"
    /\ Top.i = Len(Top.items)
    /\ stack' = Returned(ConditionalSeqNode(VisitedSeq(Top.node.seq, Top.visited)))
    /\ UNCHANGED <<level, pc, optVars, attrVars, generated, template_scopes, current_scope, resolved>>

\* lines 58-63: every root has been visited
FinishVisit ==
    /\ Visiting
    /\ Top.kind = "roots"
    /\ Top.i = Len(Top.items)
    /\ children' = Top.visited
    /\ stack' = <<>>
    /\ pc' = "visited"
    /\ UNCHANGED <<level, pass, input, element_kind, fold_input, idx, seq, new_children,
                   attrVars, generated, template_scopes, current_scope, resolved>>

(***************************************************************************)
(* Action of the code generator                                            *)
(***************************************************************************)
GenerateCall ==
    /\ level = "codegen"
    /\ pc = "generate"
    /\ generated' = Some(GenerateTransitionGroup(input[1]))
    /\ pc' = "generated"
    /\ UNCHANGED <<level, optVars, attrVars, stack, template_scopes, current_scope,
                   resolved>>

(***************************************************************************)
(* Specifications                                                          *)
(***************************************************************************)
Next ==
    \/ Elide
    \/ ElidePanics
    \/ Reorder
    \/ DrainChild
    \/ FinishFold
    \/ Reoptimize
    \/ RetainRoots
    \/ WrapRoots
    \/ VisitRoots

Spec == Init /\ [][Next]_vars

NextAttrs == VisitNextAttribute \/ AttributesDone

SpecAttrs == InitAttrs /\ [][NextAttrs]_vars

NextVisit ==
    \/ EnterElement
    \/ EnterConditional
    \/ VisitBranch
    \/ VisitInterpolationChild
    \/ VisitTextOrComment
    \/ LeaveElement
    \/ LeaveConditional
    \/ FinishVisit

SpecVisit == InitVisit /\ [][NextVisit]_vars

NextCodegen == GenerateCall

SpecCodegen == InitCodegen /\ [][NextCodegen]_vars

(***************************************************************************)
(* Vocabulary of the properties: what a sibling list looks like to the     *)
(* fold, said without the fold's loop                                      *)
(***************************************************************************)
HasDirective(n, d) ==
    IsElement(n) /\ IsSome(n.directives) /\ IsSome(Unwrap(n.directives)[d])

\* An element is treated as v-if, else as v-else-if, else as v-else
IsIfEl(n) == HasDirective(n, "v_if")
IsElseIfEl(n) == ~IsIfEl(n) /\ HasDirective(n, "v_else_if")
IsElseEl(n) == ~IsIfEl(n) /\ ~IsElseIfEl(n) /\ HasDirective(n, "v_else")

DirectivePayload(n, d) == Unwrap(Unwrap(n.directives)[d])

WithoutDirective(n, d) ==
    [n EXCEPT !.directives = Some([Unwrap(n.directives) EXCEPT ![d] = None])]

\* Between the v-if at j and position i there are only comments and v-else-if
\* elements: the chain of j is still open when i is scanned
ChainReaches(L, j, i) ==
    /\ j < i
    /\ IsIfEl(L[j])
    /\ \A k \in (j + 1)..(i - 1) : IsComment(L[k]) \/ IsElseIfEl(L[k])

ChainOpenBefore(L, i) == \E j \in 1..(i - 1) : ChainReaches(L, j, i)

IsOrphan(L, i) == (IsElseIfEl(L[i]) \/ IsElseEl(L[i])) /\ ~ChainOpenBefore(L, i)

IsAbsorbedComment(L, i) == IsComment(L[i]) /\ ChainOpenBefore(L, i)

\* The members of the run that starts at the v-if at position i
RunElseIfs(L, i) == {k \in (i + 1)..Len(L) : IsElseIfEl(L[k]) /\ ChainReaches(L, i, k)}
RunElse(L, i) == {k \in (i + 1)..Len(L) : IsElseEl(L[k]) /\ ChainReaches(L, i, k)}
RunMembers(L, i) == {i} \cup RunElseIfs(L, i) \cup RunElse(L, i)

\* The elements of a set of positions, in increasing order
Ascending(S) ==
    [m \in 1..Cardinality(S) |-> CHOOSE x \in S : Cardinality({y \in S : y <= x}) = m]

\* The sequence the run starting at i must fold into
ExpectedSeq(L, i) ==
    LET elseIfs == Ascending(RunElseIfs(L, i))
        elses == Ascending(RunElse(L, i))
    IN  [if_node |-> [condition |-> DirectivePayload(L[i], "v_if"),
                      node |-> WithoutDirective(L[i], "v_if")],
         else_if_nodes |-> [m \in 1..Len(elseIfs) |->
                [condition |-> DirectivePayload(L[elseIfs[m]], "v_else_if"),
                 node |-> WithoutDirective(L[elseIfs[m]], "v_else_if")]],
         else_node |-> [m \in 1..Len(elses) |-> L[elses[m]]]]

IsSeqNode(n) == n.type = "ConditionalSeq"
SeqPositions(out) == {k \in 1..Len(out) : IsSeqNode(out[k])}

\* if_node, else_if_nodes in order, else_node
BranchNodes(s) ==
    <<s.if_node.node>> \o [m \in 1..Len(s.else_if_nodes) |-> s.else_if_nodes[m].node]
        \o s.else_node

FlattenNode(n) == IF IsSeqNode(n) THEN BranchNodes(n.seq) ELSE <<n>>

RECURSIVE FlattenRange(_, _, _)
FlattenRange(out, lo, hi) ==
    IF lo > hi THEN <<>>
    ELSE IF lo = hi THEN FlattenNode(out[lo])
    ELSE LET mid == (lo + hi) \div 2
         IN  FlattenRange(out, lo, mid) \o FlattenRange(out, mid + 1, hi)

Flatten(out) == FlattenRange(out, 1, Len(out))

Range(f) == {f[x] : x \in DOMAIN f}
Ids(nodes) == [m \in 1..Len(nodes) |-> nodes[m].id]
IdSet(nodes) == {nodes[m].id : m \in 1..Len(nodes)}

\* The nodes of L at the positions of S, in order
SubList(L, S) == LET pos == Ascending(S) IN [m \in 1..Len(pos) |-> L[pos[m]]]

FoldDone == level \in {"children", "roots"} /\ pc = "done"

(***************************************************************************)
(* C1. Fold soundness: every run v-if, v-else-if*, v-else? of the list the  *)
(* fold scans (comments inside an open chain do not interrupt a run) is     *)
(* folded into exactly one ConditionalSeq; its branches, read as if_node,   *)
(* else_if_nodes, else_node, are the run's elements in their order, and     *)
(* each condition is the v-if / v-else-if payload of the element it wraps.  *)
(***************************************************************************)
C1_FoldSoundness ==
    FoldDone =>
        \A i \in 1..Len(fold_input) :
            IsIfEl(fold_input[i]) =>
                LET want == ExpectedSeq(fold_input, i)
                    members == {fold_input[k].id : k \in RunMembers(fold_input, i)}
                IN  /\ Cardinality({k \in SeqPositions(children) :
                                        children[k].seq = want}) = 1
                    /\ \A k \in SeqPositions(children) :
                            IdSet(BranchNodes(children[k].seq)) \cap members # {}
                                => /\ children[k].seq = want
                                   /\ Ids(BranchNodes(children[k].seq)) =
                                        Ids(SubList(fold_input, RunMembers(fold_input, i)))

\* A full run v-if, v-else-if, v-else was folded
C1_Witness ==
    /\ FoldDone
    /\ pass = 1
    /\ \E i \in 1..Len(fold_input) :
            /\ IsIfEl(fold_input[i])
            /\ RunElseIfs(fold_input, i) # {}
            /\ RunElse(fold_input, i) # {}
            /\ \E k \in SeqPositions(children) :
                    children[k].seq = ExpectedSeq(fold_input, i)

(***************************************************************************)
(* C2. Orphan directive invariance: a v-else-if or v-else element scanned   *)
(* while no sequence is open is in the output as one plain Element node and *)
(* in no ConditionalSeq, and a list without any v-if has as many siblings   *)
(* after the fold as before.                                                *)
(***************************************************************************)
C2_OrphanStaysPlain ==
    FoldDone =>
        /\ \A i \in 1..Len(fold_input) :
                IsOrphan(fold_input, i) =>
                    /\ Cardinality({k \in 1..Len(children) :
                            IsElement(children[k]) /\ children[k].id = fold_input[i].id}) = 1
                    /\ \A k \in SeqPositions(children) :
                            fold_input[i].id \notin IdSet(BranchNodes(children[k].seq))
        /\ (\A i \in 1..Len(fold_input) : ~IsIfEl(fold_input[i]))
                => Len(children) = Len(fold_input)

\* An orphan v-else-if and an orphan v-else were scanned, no v-if in the list
C2_Witness ==
    /\ FoldDone
    /\ pass = 1
    /\ \E i, j \in 1..Len(fold_input) :
            /\ IsElseIfEl(fold_input[i]) /\ IsOrphan(fold_input, i)
            /\ IsElseEl(fold_input[j]) /\ IsOrphan(fold_input, j)
    /\ \A i \in 1..Len(fold_input) : ~IsIfEl(fold_input[i])
    /\ Len(children) = Len(fold_input)

(***************************************************************************)
(* C3. An orphan v-else-if or v-else element is emitted untouched: the      *)
(* output holds a node identical to the input node, its v_else_if / v_else  *)
(* slot included.                                                           *)
(***************************************************************************)
C3_OrphanUntouched ==
    FoldDone =>
        \A i \in 1..Len(fold_input) :
            IsOrphan(fold_input, i) =>
                \E k \in 1..Len(children) : children[k] = fold_input[i]

(***************************************************************************)
(* C4. Every v-if element starts its own ConditionalSeq: at every point of  *)
(* the scan the sequences already pushed plus the open one are as many as   *)
(* the v-if elements scanned, the open sequence is headed by the last v-if  *)
(* scanned, k v-if elements yield k ConditionalSeq nodes, and every         *)
(* v-else-if branch sits in the sequence of the nearest preceding v-if.     *)
(***************************************************************************)
IfPositions(L, n) == {j \in 1..n : IsIfEl(L[j])}

\* Position in L of the element with the given id
PositionOf(L, id) == CHOOSE j \in 1..Len(L) : ~IsSeqNode(L[j]) /\ L[j].id = id

\* The sequences of the output that this fold built
NewSeqPositions(L, out) == {k \in SeqPositions(out) : out[k] \notin Range(L)}

\* C4: every v-if starts its own sequence, at every step of the scan and in the result
C4_IfStartsOwnSeq ==
    /\ (level \in {"children", "roots"} /\ pc = "fold") =>
        /\ Cardinality(SeqPositions(new_children)) + Len(seq)
                = Cardinality(SeqPositions(SubSeq(children, 1, idx)))
                    + Cardinality(IfPositions(children, idx))
        /\ IsSome(seq) =>
                /\ IfPositions(children, idx) # {}
                /\ Unwrap(seq).if_node.node.id =
                        children[CHOOSE j \in IfPositions(children, idx) :
                                    \A m \in IfPositions(children, idx) : m <= j].id
    /\ FoldDone =>
        /\ Cardinality(SeqPositions(children))
                = Cardinality(SeqPositions(fold_input))
                    + Cardinality(IfPositions(fold_input, Len(fold_input)))
        /\ \A j \in IfPositions(fold_input, Len(fold_input)) :
                \E k \in SeqPositions(children) :
                    children[k].seq.if_node.node.id = fold_input[j].id
        /\ \A k \in NewSeqPositions(fold_input, children) :
                LET head == PositionOf(fold_input, children[k].seq.if_node.node.id)
                IN  \A m \in 1..Len(children[k].seq.else_if_nodes) :
                        LET at == PositionOf(fold_input,
                                             children[k].seq.else_if_nodes[m].node.id)
                        IN  /\ head < at
                            /\ \A j \in IfPositions(fold_input, at - 1) : j <= head

\* Two v-if elements in one list gave two sequences, the second with a v-else-if
C4_Witness ==
    /\ FoldDone
    /\ pass = 1
    /\ Cardinality(IfPositions(fold_input, Len(fold_input))) >= 2
    /\ Cardinality(SeqPositions(children)) >= 2
    /\ \E k \in SeqPositions(children) :
            /\ Len(children[k].seq.else_if_nodes) >= 1
            /\ \E j \in IfPositions(fold_input, Len(fold_input)) :
                    fold_input[j].id < children[k].seq.if_node.node.id

(***************************************************************************)
(* C5. Folding neither duplicates nor reorders: under a parent that is no   *)
(* Component, the output with every ConditionalSeq replaced by its branches *)
(* is the list left by the whitespace elision without the comments absorbed *)
(* in open chains, in the same order, and no node occurs twice.             *)
(***************************************************************************)
NotAbsorbed(L) == {i \in 1..Len(L) : ~IsAbsorbedComment(L, i)}

\* C5: the flattened output is the scanned list without the absorbed comments
C5_NoDuplicationNoReorder ==
    (FoldDone /\ element_kind # "Component") =>
        LET flat == Flatten(children) IN
        /\ Ids(flat) = Ids(Flatten(SubList(fold_input, NotAbsorbed(fold_input))))
        /\ Cardinality(IdSet(flat)) = Len(flat)

\* Plain nodes around a folded chain that absorbed a comment
C5_Witness ==
    /\ FoldDone
    /\ pass = 1
    /\ element_kind # "Component"
    /\ SeqPositions(children) # {}
    /\ \E i \in 1..Len(fold_input) : IsAbsorbedComment(fold_input, i)
    /\ \E k \in 1..Len(children) : ~IsSeqNode(children[k])

(***************************************************************************)
(* C6. At most one root: merging leaves a single remaining root as it is    *)
(* and replaces several by one synthetic `template` element of scope 0      *)
(* whose children are those roots in their order; the visit that follows    *)
(* keeps that root and its children.                                        *)
(***************************************************************************)
C6_AtMostOneRoot ==
    [][/\ (level = "roots" /\ pc = "done" /\ pc' = "merged") =>
            /\ Len(children') <= 1
            /\ Len(children) <= 1 => children' = children
            /\ Len(children) > 1 =>
                    /\ Len(children') = 1
                    /\ IsElement(children'[1])
                    /\ children'[1].tag_name = "template"
                    /\ children'[1].template_scope = 0
                    /\ children'[1].children = children
       /\ (level = "roots" /\ pc = "merged" /\ pc' = "visited") =>
            /\ Len(children') = Len(children)
            /\ Len(children') <= 1
            /\ \A k \in 1..Len(children) :
                    IF IsElement(children[k]) /\ children[k].id = 0
                    THEN /\ IsElement(children'[k])
                         /\ children'[k].tag_name = "template"
                         /\ children'[k].template_scope = 0
                         /\ children'[k].children = children[k].children
                    ELSE children'[k] = children[k]
      ]_vars

\* Several roots were merged under the synthetic root and visited
C6_Witness ==
    /\ level = "roots"
    /\ pc = "visited"
    /\ Len(children) = 1
    /\ IsElement(children[1])
    /\ children[1].id = 0
    /\ Len(children[1].children) > 1
    /\ \E k \in 1..Len(children[1].children) : IsSeqNode(children[1].children[k])

(***************************************************************************)
(* C7. Idempotence: optimize_children run on its own result returns that    *)
(* result.                                                                  *)
(***************************************************************************)
C7_Idempotent ==
    (level = "children" /\ pass = 2 /\ pc = "done") => children = input

(***************************************************************************)
(* C8. Whitespace elision drops exactly the whitespace-only Text nodes that *)
(* are first, last, or between two nodes that are Element or Comment.       *)
(***************************************************************************)
DropRule(L, i) ==
    /\ IsWhitespaceText(L[i])
    /\ \/ i = 1
       \/ i = Len(L)
       \/ IsElementOrComment(L[i - 1]) /\ IsElementOrComment(L[i + 1])

RECURSIVE KeptByRule(_, _, _)
KeptByRule(L, lo, hi) ==
    IF lo > hi THEN <<>>
    ELSE IF lo = hi THEN (IF DropRule(L, lo) THEN <<>> ELSE <<L[lo]>>)
    ELSE LET mid == (lo + hi) \div 2
         IN  KeptByRule(L, lo, mid) \o KeptByRule(L, mid + 1, hi)

Elided == level = "children" /\ pc = "sort"

\* C8: after the elision the list holds exactly the nodes the rule keeps, in order
C8_ElisionRule == Elided => children = KeptByRule(input, 1, Len(input))

(***************************************************************************)
(* C9. The keep/drop decision does not depend on the length of the list: in *)
(* a list of more than 128 children the child at every index is kept or     *)
(* dropped by the rule of C8.                                               *)
(***************************************************************************)
IsKept(L, i, out) == \E k \in 1..Len(out) : out[k] = L[i]

\* C9: in a list longer than the mask every index follows the rule
C9_LengthIndependent ==
    (Elided /\ pass = 1 /\ Len(input) > MaskBits) =>
        \A i \in 1..Len(input) : IsKept(input, i, children) <=> ~DropRule(input, i)

(***************************************************************************)
(* C10. FullProps exclusivity: whenever FullProps is set, Class, Style and  *)
(* Props are clear and the dynamic-prop name list is empty, and after a     *)
(* binding with a non-literal argument no later binding adds any of them.   *)
(***************************************************************************)
IsNonLiteralBinding(attr) == attr.kind = "VBind" /\ ~HasLiteralArgument(attr)

\* C10: FullProps excludes Class, Style, Props and prop names, now and afterwards
C10_FullPropsExclusive ==
    level = "attrs" =>
        /\ "FullProps" \in patch_hints.flags =>
                /\ patch_hints.flags \cap {"Class", "Style", "Props"} = {}
                /\ patch_hints.props = <<>>
        /\ \A k \in 1..attr_idx :
                (\E j \in 1..k : IsNonLiteralBinding(attributes[j])) =>
                    /\ "FullProps" \in hints_log[k].flags
                    /\ hints_log[k].flags \cap {"Class", "Style", "Props"} = {}
                    /\ hints_log[k].props = <<>>

\* Class or Props was set, a non-literal binding cleared it, and a dynamic
\* literal-named binding came after it
C10_Witness ==
    /\ level = "attrs"
    /\ pc = "attrs_done"
    /\ "FullProps" \in patch_hints.flags
    /\ \E j \in 1..Len(attributes) :
            /\ IsNonLiteralBinding(attributes[j])
            /\ j > 1
            /\ hints_log[j - 1].flags # {}
            /\ \E m \in (j + 1)..Len(attributes) :
                    /\ attributes[m].kind = "VBind"
                    /\ HasLiteralArgument(attributes[m])
                    /\ TransformExpr(attributes[m].value)
                    /\ Unwrap(attributes[m].argument).val # "key"

(***************************************************************************)
(* Vocabulary of the properties of the visit                               *)
(***************************************************************************)
VisitDone == level = "visit" /\ pc = "visited"

\* The elements of a tree, those inside conditional sequences included
RECURSIVE ElementsIn(_)
ElementsIn(n) ==
    IF n.type = "Element"
    THEN {n} \cup UNION {ElementsIn(n.children[k]) : k \in 1..Len(n.children)}
    ELSE IF n.type = "ConditionalSeq"
         THEN UNION {ElementsIn(b) : b \in Range(BranchNodes(n.seq))}
         ELSE {}

TreeElements(roots) == UNION {ElementsIn(roots[k]) : k \in 1..Len(roots)}

HasVFor(el) == IsSome(el.directives) /\ IsSome(Unwrap(el.directives).v_for)
VForOf(el) == Unwrap(Unwrap(el.directives).v_for)

\* The attribute is written `name="..."` or `:name="..."`
IsNamed(attr, name) ==
    \/ attr.kind = "RegularAttribute" /\ attr.name = name
    \/ attr.kind = "VBind" /\ attr.argument = StrArg(name)

HasAttributeNamed(el, name) ==
    \E k \in 1..Len(el.attributes) : IsNamed(el.attributes[k], name)

(***************************************************************************)
(* C11. After the transform every v-for directive of the tree carries       *)
(* exactly one of StableFragment, KeyedFragment, UnkeyedFragment:           *)
(* StableFragment when its iterable was classified non-dynamic, otherwise   *)
(* KeyedFragment when the element has an attribute named `key` and          *)
(* UnkeyedFragment when it has none.                                        *)
(***************************************************************************)
FragmentFlags == {"StableFragment", "KeyedFragment", "UnkeyedFragment"}

\* C11: every v-for of the visited tree has exactly the fragment flag of its case
C11_OneFragmentFlag ==
    VisitDone =>
        \A el \in TreeElements(children) :
            HasVFor(el) =>
                VForOf(el).patch_flags \cap FragmentFlags =
                    {IF ~VForOf(el).iterable.is_dynamic THEN "StableFragment"
                     ELSE IF HasAttributeNamed(el, "key") THEN "KeyedFragment"
                     ELSE "UnkeyedFragment"}

\* A v-for with a dynamic iterable and a bound `:key`, folded into a conditional
\* sequence, was flagged KeyedFragment
C11_Witness ==
    /\ VisitDone
    /\ \E k \in SeqPositions(children[1].children) :
        LET el == children[1].children[k].seq.if_node.node IN
        /\ HasVFor(el)
        /\ VForOf(el).iterable.is_dynamic
        /\ \E a \in 1..Len(el.attributes) :
                el.attributes[a] = VBind(StrArg("key"), TRUE)
        /\ VForOf(el).patch_flags = {"KeyedFragment"}

(***************************************************************************)
(* C12. Scope containment: every expression is resolved against a scope     *)
(* whose parent chain exposes only variables collected for the element that *)
(* owns the expression's scope and for that element's ancestors; a variable *)
(* introduced by a v-for or v-slot on an element is never visible to an     *)
(* expression of a sibling, of an ancestor, or of any node outside that     *)
(* element's subtree.                                                       *)
(***************************************************************************)
IsPrefix(a, b) == Len(a) <= Len(b) /\ SubSeq(b, 1, Len(a)) = a

\* The element whose v-for or v-slot introduced the variable
IntroducedBy(variable) == variable[2]

\* C12: what a resolution sees was introduced on the resolving node or an ancestor
C12_ScopeContainment ==
    level = "visit" =>
        \A k \in 1..Len(resolved) :
            \A v \in resolved[k].visible :
                IsPrefix(IntroducedBy(v), resolved[k].owner)

(***************************************************************************)
(* C13. Element classification: a tag of the built-in table is              *)
(* Builtin(kind) with the kind the table gives it, except that `component`  *)
(* is Builtin only with an attribute named `is` and Component without; a    *)
(* tag that is not in the table is Element when it is a standard markup tag *)
(* and Component otherwise.                                                 *)
(***************************************************************************)
\* C13: every element of the visited tree has the kind of its tag's case
C13_Classification ==
    VisitDone =>
        \A el \in TreeElements(children) :
            /\ (el.tag_name \in VueBuiltins /\ el.tag_name # "component") =>
                    /\ el.kind = "Builtin"
                    /\ el.builtin_type = Some(VueBuiltinType(el.tag_name))
            /\ (el.tag_name = "component" /\ HasAttributeNamed(el, "is")) =>
                    /\ el.kind = "Builtin"
                    /\ el.builtin_type = Some("Component")
            /\ (el.tag_name = "component" /\ ~HasAttributeNamed(el, "is")) =>
                    /\ el.kind = "Component"
                    /\ el.builtin_type = None
            /\ (el.tag_name \notin VueBuiltins /\ IsHtmlTag(el.tag_name)) =>
                    /\ el.kind = "Element"
                    /\ el.builtin_type = None
            /\ (el.tag_name \notin VueBuiltins /\ ~IsHtmlTag(el.tag_name)) =>
                    /\ el.kind = "Component"
                    /\ el.builtin_type = None

\* A `component` whose second attribute is a bound `:is` was classified Builtin
C13_Witness ==
    /\ VisitDone
    /\ children[1].tag_name = "component"
    /\ Len(children[1].attributes) = 2
    /\ children[1].attributes[1] = RegularAttribute("id")
    /\ children[1].attributes[2] = VBind(StrArg("is"), TRUE)
    /\ children[1].kind = "Builtin"
    /\ children[1].builtin_type = Some("Component")

(***************************************************************************)
(* C14. The Text flag is set on an element if and only if, after its        *)
(* children were optimized and visited, the element is of kind Element, has *)
(* at least one child, has no Element or ConditionalSeq child, and at least *)
(* one Interpolation child was flagged dynamic; it is never set on a        *)
(* Component or Builtin, and it may stand beside Props, Class, Style or     *)
(* FullProps.                                                               *)
(***************************************************************************)
HasDynamicInterpolation(el) ==
    \E k \in 1..Len(el.children) :
        el.children[k].type = "Interpolation" /\ el.children[k].patch_flag

OnlyTextChildren(el) ==
    /\ Len(el.children) >= 1
    /\ \A k \in 1..Len(el.children) :
            el.children[k].type \notin {"Element", "ConditionalSeq"}

\* C14: the Text flag of every element of the visited tree follows the rule
C14_TextFlag ==
    VisitDone =>
        \A el \in TreeElements(children) :
            /\ "Text" \in el.patch_hints.flags <=>
                    /\ el.kind = "Element"
                    /\ OnlyTextChildren(el)
                    /\ HasDynamicInterpolation(el)
            /\ el.kind \in {"Component", "Builtin"} => "Text" \notin el.patch_hints.flags

\* An element with a dynamic `:class`, a text and a dynamic interpolation carries
\* Class and Text
C14_Witness ==
    /\ VisitDone
    /\ children[1].kind = "Element"
    /\ children[1].patch_hints.flags = {"Class", "Text"}
    /\ Len(children[1].children) = 2
    /\ children[1].children[1].type = "Text"
    /\ HasDynamicInterpolation(children[1])

(***************************************************************************)
(* C15. The creation call generated for a <transition-group>: its           *)
(* arguments are, by position, the tag reference, the attribute object and  *)
(* the slots object. Without attributes and children only the tag reference *)
(* is passed; with attributes only, the attribute object holds every        *)
(* attribute, keys in source order; with children only, the attribute       *)
(* position holds null and the slots object holds one default slot closure  *)
(* wrapped by the render-context helper plus the marker `_: 1`; with both,  *)
(* all three positions are filled in that order.                            *)
(***************************************************************************)
Generated == level = "codegen" /\ pc = "generated"

AttributeName(attr) ==
    IF attr.kind = "RegularAttribute" THEN attr.name ELSE Unwrap(attr.argument).val

\* The argument is the object of these attributes, keys in their order
IsAttributeObject(a, attrs) ==
    /\ a.arg = "object"
    /\ Len(a.props) = Len(attrs)
    /\ \A k \in 1..Len(attrs) : a.props[k].key = AttributeName(attrs[k])

\* The argument is { default: _withCtx(() => [..one entry per child..]), _: 1 }
IsSlotsObject(a, kids) ==
    /\ a.arg = "object"
    /\ Len(a.props) = 2
    /\ a.props[1].key = "default"
    /\ a.props[1].value.wrapped_by = "_withCtx"
    /\ Len(a.props[1].value.returns) = Len(kids)
    /\ a.props[2] = [key |-> "_", value |-> 1]

\* C15: the arguments of the generated call, case by case
C15_CreationCallArguments ==
    Generated =>
        LET el == input[1]
            args == Unwrap(generated).args
            has_attrs == Len(el.attributes) > 0
            has_children == Len(el.children) > 0
            unflagged == el.patch_hints = DefaultPatchHints
        IN  /\ args[1] = TransitionGroupIdent
            /\ (~has_attrs /\ ~has_children) => Len(args) = 1
            /\ (has_attrs /\ ~has_children) =>
                    /\ IsAttributeObject(args[2], el.attributes)
                    /\ unflagged => Len(args) = 2
            /\ (~has_attrs /\ has_children) =>
                    /\ Len(args) = 3
                    /\ args[2] = NullArg
                    /\ IsSlotsObject(args[3], el.children)
            /\ (has_attrs /\ has_children) =>
                    /\ IsAttributeObject(args[2], el.attributes)
                    /\ IsSlotsObject(args[3], el.children)
                    /\ unflagged => Len(args) = 3

\* <transition-group foo=".." :baz="..">text</transition-group> gave three arguments
C15_Witness ==
    /\ Generated
    /\ input[1].attributes = <<RegularAttribute("foo"), VBind(StrArg("baz"), TRUE)>>
    /\ Len(input[1].children) = 1
    /\ input[1].patch_hints = DefaultPatchHints
    /\ Len(Unwrap(generated).args) = 3
    /\ Unwrap(generated).args[2].props[1].key = "foo"
    /\ Unwrap(generated).args[2].props[2].key = "baz"
    /\ IsSlotsObject(Unwrap(generated).args[3], input[1].children)

(***************************************************************************)
(* C16. Totality: whatever the number of children of an element (zero, one, *)
(* more than 128), transform_and_record_template and optimize_children      *)
(* complete normally: no panic, no arithmetic overflow, no unreachable      *)
(* branch.                                                                  *)
(***************************************************************************)
\* C16: optimize_children never ends in a panic
C16_Totality == level \in {"children", "roots"} => pc # "panic"

(***************************************************************************)
(* C17. A Comment scanned while a conditional sequence is open is removed   *)
(* from the output and does not close the sequence, so `v-if, comment,      *)
(* v-else` folds into one ConditionalSeq; a Comment scanned while no        *)
(* sequence is open is emitted unchanged at its position.                   *)
(***************************************************************************)
\* C17: the step of the scan over a comment, and what the finished fold holds
C17_CommentAbsorbed ==
    [][/\ (pc = "fold" /\ idx' = idx + 1 /\ IsComment(children[idx + 1])) =>
            IF IsSome(seq)
            THEN seq' = seq /\ new_children' = new_children
            ELSE seq' = None /\ new_children' = Append(new_children, children[idx + 1])
       /\ (pc = "fold" /\ pc' = "done") =>
            /\ \A i \in 1..Len(fold_input) :
                    IsComment(fold_input[i]) =>
                        (IsAbsorbedComment(fold_input, i)
                            <=> ~\E k \in 1..Len(children') : children'[k] = fold_input[i])
            /\ \A j, m \in 1..Len(fold_input) :
                    (/\ ChainReaches(fold_input, j, m)
                     /\ IsElseEl(fold_input[m])
                     /\ \E i \in (j + 1)..(m - 1) : IsComment(fold_input[i])) =>
                        \E k \in SeqPositions(children') :
                            /\ children'[k].seq.if_node.node.id = fold_input[j].id
                            /\ children'[k].seq.else_node = Some(fold_input[m])
      ]_vars

\* v-if, comment, v-else was folded into a single node
C17_Witness ==
    /\ FoldDone
    /\ pass = 1
    /\ Len(fold_input) = 3
    /\ IsIfEl(fold_input[1])
    /\ IsComment(fold_input[2])
    /\ IsElseEl(fold_input[3])
    /\ Len(children) = 1
    /\ IsSeqNode(children[1])
    /\ children[1].seq.else_node = Some(fold_input[3])

(***************************************************************************)
(* C18. A v-else element always terminates its chain: once it is attached   *)
(* as else_node the sequence is closed at once, so no ConditionalSeq gains  *)
(* an else-if or a second else after its else_node, and a v-else-if or      *)
(* v-else element that directly follows a v-else is treated as an orphan;   *)
(* at most one sequence is open at any point of the scan and none is left   *)
(* open at the end of the list.                                             *)
(***************************************************************************)
\* C18: the open sequence never has an else_node; a v-else closes it in the same
\* step; what follows a v-else is an orphan; the end of the list closes the rest
C18_ElseTerminatesChain ==
    [][/\ (pc = "fold" /\ IsSome(seq)) => Unwrap(seq).else_node = None
       /\ (pc' = "fold" /\ IsSome(seq')) => Unwrap(seq').else_node = None
       /\ (pc = "fold" /\ idx' = idx + 1 /\ IsElseEl(children[idx + 1]) /\ IsSome(seq)) =>
            /\ seq' = None
            /\ new_children' =
                    Append(new_children,
                           ConditionalSeqNode([Unwrap(seq) EXCEPT
                                                !.else_node = Some(children[idx + 1])]))
       /\ (pc = "fold" /\ idx' = idx + 1 /\ idx >= 1 /\ IsElseEl(children[idx])
                /\ (IsElseIfEl(children[idx + 1]) \/ IsElseEl(children[idx + 1]))) =>
            /\ seq = None
            /\ seq' = None
            /\ Len(new_children') = Len(new_children) + 1
            /\ IsElement(new_children'[Len(new_children')])
            /\ new_children'[Len(new_children')].id = children[idx + 1].id
       /\ (pc = "fold" /\ pc' = "done") =>
            /\ seq' = None
            /\ children' = IF IsSome(seq)
                           THEN Append(new_children, ConditionalSeqNode(Unwrap(seq)))
                           ELSE new_children
            /\ \A k \in NewSeqPositions(fold_input, children') :
                    LET s == children'[k].seq IN
                    IsSome(s.else_node) =>
                        \A m \in 1..Len(s.else_if_nodes) :
                            PositionOf(fold_input, s.else_if_nodes[m].node.id)
                                < PositionOf(fold_input, Unwrap(s.else_node).id)
      ]_vars

\* v-if, v-else, v-else: one sequence closed by the first v-else, then an orphan
C18_Witness ==
    /\ FoldDone
    /\ pass = 1
    /\ Len(fold_input) = 3
    /\ IsIfEl(fold_input[1])
    /\ IsElseEl(fold_input[2])
    /\ IsElseEl(fold_input[3])
    /\ Len(children) = 2
    /\ IsSeqNode(children[1])
    /\ children[1].seq.else_node = Some(fold_input[2])
    /\ children[2] = fold_input[3]

(***************************************************************************)
(* C19. A v-bind with a literal argument leaves the element's flags and     *)
(* dynamic-prop name list unchanged when its argument is `key` or when its  *)
(* expression was classified non-dynamic.                                   *)
(***************************************************************************)
\* The hints before the k-th attribute was processed
HintsBefore(k) == IF k = 1 THEN DefaultPatchHints ELSE hints_log[k - 1]

IsKeyOrStaticBinding(attr) ==
    /\ attr.kind = "VBind"
    /\ HasLiteralArgument(attr)
    /\ Unwrap(attr.argument).val = "key" \/ ~attr.value.is_dynamic

\* C19: such a binding changes neither the flags nor the names
C19_KeyAndStaticBindingsSkip ==
    level = "attrs" =>
        \A k \in 1..attr_idx :
            IsKeyOrStaticBinding(attributes[k]) => hints_log[k] = HintsBefore(k)

\* After a dynamic `:foo` set Props, a dynamic `:key` and a non-dynamic `:class`
\* left the hints as they were
C19_Witness ==
    /\ level = "attrs"
    /\ pc = "attrs_done"
    /\ attributes = <<VBind(StrArg("foo"), TRUE), VBind(StrArg("key"), TRUE),
                      VBind(StrArg("class"), FALSE)>>
    /\ patch_hints = [flags |-> {"Props"}, props |-> <<"foo">>]
    /\ hints_log[1] = patch_hints
    /\ hints_log[2] = patch_hints

(***************************************************************************)
(* C20. Routing of dynamic literal-named bindings by element kind: on a     *)
(* Component every dynamic binding other than `key`, `class` and `style`    *)
(* included, sets Props and records its name, so a Component never carries  *)
(* Class or Style; on a plain Element `class` sets Class, `style` sets      *)
(* Style, and any other name sets Props and records the name.               *)
(***************************************************************************)
IsRoutedBinding(attr) ==
    /\ attr.kind = "VBind"
    /\ HasLiteralArgument(attr)
    /\ attr.value.is_dynamic
    /\ Unwrap(attr.argument).val # "key"

\* Props is set and the name is appended to the names recorded before
RecordsProp(k, name) ==
    /\ "Props" \in hints_log[k].flags
    /\ hints_log[k].props = Append(HintsBefore(k).props, name)

\* The k-th attribute was routed as its element kind demands
RoutedByKind(k) ==
    LET name == Unwrap(attributes[k].argument).val IN
    /\ element_kind = "Component" => RecordsProp(k, name)
    /\ element_kind = "Element" =>
            IF name = "class" THEN "Class" \in hints_log[k].flags
            ELSE IF name = "style" THEN "Style" \in hints_log[k].flags
            ELSE RecordsProp(k, name)

NoClassOrStyleOnComponent ==
    element_kind = "Component" => patch_hints.flags \cap {"Class", "Style"} = {}

\* C20 as stated: every dynamic literal-named binding other than key is routed
C20_RoutingByKind ==
    level = "attrs" =>
        /\ \A k \in 1..attr_idx : IsRoutedBinding(attributes[k]) => RoutedByKind(k)
        /\ NoClassOrStyleOnComponent

\* C20 amended: the binding is routed unless FullProps was already set when it
\* was processed
C20_RoutingUnlessFullProps ==
    level = "attrs" =>
        /\ \A k \in 1..attr_idx :
                (IsRoutedBinding(attributes[k]) /\ "FullProps" \notin HintsBefore(k).flags)
                    => RoutedByKind(k)
        /\ NoClassOrStyleOnComponent

\* A Component with dynamic `:class`, `:style` and `:foo` carries Props with the
\* three names and neither Class nor Style
C20_Witness ==
    /\ level = "attrs"
    /\ pc = "attrs_done"
    /\ element_kind = "Component"
    /\ attributes = <<VBind(StrArg("class"), TRUE), VBind(StrArg("style"), TRUE),
                      VBind(StrArg("foo"), TRUE)>>
    /\ patch_hints = [flags |-> {"Props"}, props |-> <<"class", "style", "foo">>]

(***************************************************************************)
(* C21. The condition of every branch of a ConditionalSeq is resolved       *)
(* against the scope that encloses the sequence, before the branch element  *)
(* is visited: names bound by a v-for or v-slot on the branch element       *)
(* itself, or on an earlier branch of the same sequence, are not visible to *)
(* any condition of the sequence.                                           *)
(***************************************************************************)
\* The calls of visit_conditional_node in progress
ConditionalFrames == {k \in 1..Len(stack) : stack[k].kind = "conditional"}

\* The ids of the branch elements of the sequence a frame visits
BranchIds(frame) == {frame.items[m].node.id : m \in 1..Len(frame.items)}

\* The resolutions of the conditions of the sequence a frame visits
ConditionsOf(frame) ==
    {k \in 1..Len(resolved) :
        resolved[k].role = "condition" /\ resolved[k].owner \in BranchIds(frame)}

\* C21: a condition is resolved in the scope current when the sequence was entered,
\* before anything of its branch element, and sees no name bound on a branch
C21_ConditionSeesOuterScope ==
    level = "visit" =>
        \A f \in ConditionalFrames :
            \A k \in ConditionsOf(stack[f]) :
                /\ resolved[k].scope = stack[f].parent_scope
                /\ \A m \in 1..(k - 1) : ~IsPrefix(resolved[k].owner, resolved[m].owner)
                /\ \A v \in resolved[k].visible : IntroducedBy(v) \notin BranchIds(stack[f])

(***************************************************************************)
(* C22. Opening a scope for an element with v-for or v-slot appends exactly *)
(* one new scope (one even when the element has both directives) whose      *)
(* parent is the scope current on entry and whose id is fresh: it differs   *)
(* from the id of every scope already in use, including the enclosing scope *)
(* and the template root scope 0, also when the compilation starts from a   *)
(* default (empty) BindingsHelper; existing scopes are never removed and    *)
(* their parent never changes.                                              *)
(***************************************************************************)
\* The scope ids in use: the root scope, the current one, those the calls in
\* progress will restore, and those of the table
ScopesInUse ==
    {0, current_scope}
        \cup {stack[k].parent_scope : k \in 1..Len(stack)}
        \cup {k - 1 : k \in 1..Len(template_scopes)}

\* The step enters visit_element_node on an element with v-for or v-slot
EntersScopedElement ==
    /\ Len(stack') = Len(stack) + 1
    /\ stack'[Len(stack')].kind = "element"
    /\ OpensScope(stack'[Len(stack')].node)

\* C22: a step that enters a scoped element appends one scope, child of the scope
\* current on entry, under an id not in use; no step removes or reparents a scope
C22_FreshScope ==
    [][level = "visit" =>
        /\ Len(template_scopes') >= Len(template_scopes)
        /\ \A k \in 1..Len(template_scopes) :
                template_scopes'[k].parent = template_scopes[k].parent
        /\ EntersScopedElement =>
            /\ Len(template_scopes') = Len(template_scopes) + 1
            /\ template_scopes'[Len(template_scopes')].parent = current_scope
            /\ current_scope' = Len(template_scopes)
            /\ Len(template_scopes) \notin ScopesInUse
        /\ ~EntersScopedElement => Len(template_scopes') = Len(template_scopes)]_vars

(***************************************************************************)
(* C23. For every element whose patch hints start empty, after its          *)
(* attributes are processed the Props flag is set if and only if the        *)
(* dynamic-prop name list is non-empty, whatever the order and kinds of its *)
(* bindings.                                                                *)
(***************************************************************************)
AttributesProcessed == level = "attrs" /\ pc = "attrs_done"

\* C23: once the attribute loop has ended, Props is set exactly when names are recorded
C23_PropsIffNames ==
    AttributesProcessed =>
        ("Props" \in patch_hints.flags <=> patch_hints.props # <<>>)

\* A prop name was recorded, then a binding with a computed argument cleared both
\* the flag and the names, and the dynamic binding after it recorded nothing
C23_Witness ==
    /\ AttributesProcessed
    /\ attributes = <<VBind(StrArg("foo"), TRUE), VBind(ExprArg, TRUE),
                      VBind(StrArg("foo"), TRUE)>>
    /\ hints_log[1] = [flags |-> {"Props"}, props |-> <<"foo">>]
    /\ patch_hints = [flags |-> {"FullProps"}, props |-> <<>>]

(***************************************************************************)
(* C24. Visiting an element leaves the visitor's current scope unchanged:   *)
(* when visit_element_node returns, current_scope equals its value on       *)
(* entry, for any nesting of v-for / v-slot elements and conditional        *)
(* sequences, so the siblings that follow a scoped element are visited in   *)
(* their parent's scope, and each element's and interpolation's             *)
(* template_scope is the scope current while it was visited.                *)
(***************************************************************************)
\* The scope in which the call of a frame visits its items: the element's own
\* scope, the scope a sequence was entered in, the visitor's initial scope
ScopeWithin(frame) ==
    IF frame.kind = "element" THEN frame.node.template_scope
    ELSE IF frame.kind = "conditional" THEN frame.parent_scope
    ELSE 0

\* C24: between two visits of its items a call finds the current scope to be the
\* scope it visits its items in, every call in progress was entered in the scope
\* of its caller, every interpolation visited carries the scope of the call that
\* visited it, and the visitor ends in the scope it started in
C24_ScopeRestored ==
    level = "visit" =>
        /\ pc = "visited" => current_scope = 0
        /\ \A k \in 1..Len(stack) :
            /\ k = Len(stack) => current_scope = ScopeWithin(stack[k])
            /\ k < Len(stack) => stack[k + 1].parent_scope = ScopeWithin(stack[k])
            /\ \A m \in 1..Len(stack[k].visited) :
                    stack[k].visited[m].type = "Interpolation"
                        => stack[k].visited[m].template_scope = ScopeWithin(stack[k])

\* After a v-for element with a v-for child, opened as scopes 1 and 2, the
\* interpolation that follows them was visited in the root element's scope 0
C24_Witness ==
    /\ VisitDone
    /\ current_scope = 0
    /\ Len(template_scopes) = 3
    /\ Len(children[1].children) = 2
    /\ children[1].template_scope = 0
    /\ children[1].children[1].type = "Element"
    /\ children[1].children[1].template_scope = 1
    /\ Len(children[1].children[1].children) = 1
    /\ children[1].children[1].children[1].type = "Element"
    /\ children[1].children[1].children[1].template_scope = 2
    /\ children[1].children[2].type = "Interpolation"
    /\ children[1].children[2].template_scope = 0

(***************************************************************************)
(* C25. At template root level only Element nodes survive: every root Text  *)
(* (whitespace or not), Comment and Interpolation node is discarded before  *)
(* folding, so a root-level comment between a v-if root and a v-else root   *)
(* does not prevent them from folding, and the output roots contain only    *)
(* Element and ConditionalSeq nodes.                                        *)
(***************************************************************************)
ElementPositions(L) == {i \in 1..Len(L) : IsElement(L[i])}

\* Only nodes that are not elements lie strictly between the positions i and j
OnlyNonElementsBetween(L, i, j) == \A m \in (i + 1)..(j - 1) : ~IsElement(L[m])

\* The roots hold a sequence made of the if root with id a and the else root with id b
FoldedTogether(roots, a, b) ==
    \E k \in SeqPositions(roots) :
        /\ roots[k].seq.if_node.node.id = a
        /\ Len(roots[k].seq.else_node) = 1
        /\ roots[k].seq.else_node[1].id = b

\* C25: the fold of the roots starts from the Element roots alone, in their
\* order; a v-if root and a v-else root with only other nodes between them fold
\* into one sequence; the roots end as Elements and ConditionalSeqs only
C25_OnlyElementRoots ==
    level = "roots" =>
        /\ pc = "start" => children = SubList(input, ElementPositions(input))
        /\ pc = "fold" => \A k \in 1..Len(fold_input) : IsElement(fold_input[k])
        /\ pc = "done" =>
            \A i, j \in 1..Len(input) :
                (/\ i < j
                 /\ IsIfEl(input[i])
                 /\ IsElseEl(input[j])
                 /\ OnlyNonElementsBetween(input, i, j))
                    => FoldedTogether(children, input[i].id, input[j].id)
        /\ pc \in {"done", "merged", "visited"} =>
            \A k \in 1..Len(children) : IsElement(children[k]) \/ IsSeqNode(children[k])

\* A v-if root, a comment and a v-else root ended as one sequence, the only root
C25_Witness ==
    /\ level = "roots"
    /\ pc = "visited"
    /\ Len(input) = 3
    /\ IsIfEl(input[1])
    /\ IsComment(input[2])
    /\ IsElseEl(input[3])
    /\ Len(children) = 1
    /\ FoldedTogether(children, input[1].id, input[3].id)

====
